---------------------------- MODULE Spec2Model ----------------------------
(***************************************************************************)
(* A model of classyfd: File and Directory entities wrapping a path, and   *)
(* the path utilities of classyfd/utils.py, on a POSIX platform.           *)
(*                                                                         *)
(* A path string is a sequence of one-character strings.  The filesystem   *)
(* is a tree: a function from canonical locations (sequences of entry      *)
(* names, <<>> being the root) to entries.  The library calls of the       *)
(* standard library (posixpath, pathlib, os.rename, ...) are modelled by   *)
(* what they do on such strings and trees; symbolic links are not          *)
(* modelled.                                                               *)
(***************************************************************************)
EXTENDS Integers, Sequences, FiniteSets, TLC

VARIABLES
    fs,      \* the filesystem: canonical location -> [kind, data, uid, gid]
    ent,     \* the entities: slot -> [cls, path]
    last,    \* the operation performed by the last step and its outcome
    nops,    \* number of operations performed so far
    np,      \* normalize_path study: the input path
    nout,    \* normalize_path study: the successive results
    arg,     \* study of one call or scenario: its inputs
    ret      \* study of one call or scenario: its progress and results

vars == <<fs, ent, last, nops, np, nout, arg, ret>>

-----------------------------------------------------------------------------
(* Strings *)

SEP == "/"
BSL == "\\"
Dot == <<".">>
DotDot == <<".", ".">>
Slash == <<"/">>
Brace == <<"{", "1", ",", "}">>

Last(s) == s[Len(s)]
Front(s) == SubSeq(s, 1, Len(s) - 1)

\* str.startswith
StartsWith(s, pre) ==
    Len(s) >= Len(pre) /\ SubSeq(s, 1, Len(pre)) = pre

\* str.split(sep) for a one-character separator
RECURSIVE SplitAcc(_, _, _, _)
SplitAcc(s, c, cur, acc) ==
    IF s = <<>> THEN Append(acc, cur)
    ELSE IF Head(s) = c THEN SplitAcc(Tail(s), c, <<>>, Append(acc, cur))
    ELSE SplitAcc(Tail(s), c, Append(cur, Head(s)), acc)

Split(s, c) == SplitAcc(s, c, <<>>, <<>>)

\* sep.join(comps)
RECURSIVE JoinWith(_, _)
JoinWith(comps, c) ==
    IF comps = <<>> THEN <<>>
    ELSE IF Len(comps) = 1 THEN Head(comps)
    ELSE Head(comps) \o <<c>> \o JoinWith(Tail(comps), c)

\* the concatenation of a sequence of strings
RECURSIVE Concat(_)
Concat(ss) == IF ss = <<>> THEN <<>> ELSE Head(ss) \o Concat(Tail(ss))

\* the components of a path that are not empty
NonEmptyComps(s) == SelectSeq(Split(s, SEP), LAMBDA c : c # <<>>)

-----------------------------------------------------------------------------
(* posixpath *)

\* posixpath.normpath: the number of leading slashes that are kept
InitialSlashes(path) ==
    IF ~StartsWith(path, Slash) THEN 0
    ELSE IF StartsWith(path, <<"/", "/">>) /\ ~StartsWith(path, <<"/", "/", "/">>)
         THEN 2
    ELSE 1

RECURSIVE NormComps(_, _, _)
NormComps(comps, initial_slashes, new_comps) ==
    IF comps = <<>> THEN new_comps
    ELSE LET comp == Head(comps)
             rest == Tail(comps)
         IN  IF comp = <<>> \/ comp = Dot
               THEN NormComps(rest, initial_slashes, new_comps)
             ELSE IF \/ comp # DotDot
                     \/ (initial_slashes = 0 /\ new_comps = <<>>)
                     \/ (new_comps # <<>> /\ Last(new_comps) = DotDot)
               THEN NormComps(rest, initial_slashes, Append(new_comps, comp))
             ELSE IF new_comps # <<>>
               THEN NormComps(rest, initial_slashes, Front(new_comps))
             ELSE NormComps(rest, initial_slashes, new_comps)

normpath(path) ==
    IF path = <<>> THEN Dot
    ELSE LET initial_slashes == InitialSlashes(path)
             comps == NormComps(Split(path, SEP), initial_slashes, <<>>)
             res == [i \in 1..initial_slashes |-> SEP] \o JoinWith(comps, SEP)
         IN  IF res = <<>> THEN Dot ELSE res

\* posixpath.join(a, p)
join(a, p) ==
    IF StartsWith(p, Slash) THEN p
    ELSE IF a = <<>> \/ Last(a) = SEP THEN a \o p
    ELSE a \o Slash \o p

\* os.getcwd(): the process runs in the root directory
getcwd == Slash

\* posixpath.abspath
abspath(path) ==
    IF StartsWith(path, Slash) THEN normpath(path)
    ELSE normpath(join(getcwd, path))

-----------------------------------------------------------------------------
(* classyfd/utils.py *)

\* re.sub(re.compile(r"/{1,}"), "/", s): every run of "/" becomes one "/"
RECURSIVE sub_forward_slashes(_)
sub_forward_slashes(s) ==
    IF s = <<>> THEN <<>>
    ELSE IF Head(s) = SEP /\ Len(s) >= 2 /\ s[2] = SEP
      THEN sub_forward_slashes(Tail(s))
    ELSE <<Head(s)>> \o sub_forward_slashes(Tail(s))

\* re.sub(re.compile(r"\{1,}"), "/", s): in the pattern "\{" is an escaped
\* brace, so the pattern is the literal text {1,} and every occurrence of
\* it, left to right, becomes "/"; a back slash is never matched.
RECURSIVE sub_back_slashes(_)
sub_back_slashes(s) ==
    IF s = <<>> THEN <<>>
    ELSE IF StartsWith(s, Brace)
      THEN Slash \o sub_back_slashes(SubSeq(s, Len(Brace) + 1, Len(s)))
    ELSE <<Head(s)>> \o sub_back_slashes(Tail(s))

\* normalize_path(path) on a POSIX platform
normalize_path(path) ==
    sub_back_slashes(sub_forward_slashes(normpath(path)))

\* get_random_file_name: the length of a name and the characters it is
\* drawn from
CHARACTER_LENGTH == 32

LETTERS ==
    <<"a", "b", "c", "d", "e", "f", "g", "h", "i", "j", "k", "l", "m",
      "n", "o", "p", "q", "r", "s", "t", "u", "v", "w", "x", "y", "z">>

NUMBERS == <<"0", "1", "2", "3", "4", "5", "6", "7", "8", "9">>

VALID_CHARACTERS == LETTERS \o NUMBERS

-----------------------------------------------------------------------------
(* pathlib.PurePosixPath *)

\* the parts of a path after its root: empty and "." components are dropped
path_parts(path) ==
    SelectSeq(Split(path, SEP), LAMBDA c : c # <<>> /\ c # Dot)

\* the root of a path: "", "/" or "//" (exactly two leading slashes are kept)
path_root(path) == [i \in 1..InitialSlashes(path) |-> SEP]

\* str(PurePosixPath)
path_str(root, parts) ==
    IF root = <<>> /\ parts = <<>> THEN Dot ELSE root \o JoinWith(parts, SEP)

\* str(pathlib.Path(path).parent)
path_parent(path) ==
    LET parts == path_parts(path)
    IN  path_str(path_root(path), IF parts = <<>> THEN parts ELSE Front(parts))

\* pathlib.Path(path).name
path_name(path) ==
    LET parts == path_parts(path)
    IN  IF parts = <<>> THEN <<>> ELSE Last(parts)

\* str.rfind("."): the position of the last dot of a name, counted from 1
\* (0 when there is none)
RECURSIVE rfind_dot(_)
rfind_dot(name) ==
    IF name = <<>> THEN 0
    ELSE IF Last(name) = "." THEN Len(name)
    ELSE rfind_dot(Front(name))

\* str.lstrip("."): the name without its leading dots
RECURSIVE lstrip_dots(_)
lstrip_dots(name) ==
    IF name # <<>> /\ Head(name) = "." THEN lstrip_dots(Tail(name))
    ELSE name

\* a name splits at its last dot when that dot is neither its first nor
\* its last character
SplitsAtLastDot(name, i) == 1 < i /\ i < Len(name)

\* PurePath.suffix of a name, with i the position of its last dot
path_suffix(name, i) ==
    IF SplitsAtLastDot(name, i) THEN SubSeq(name, i, Len(name)) ELSE <<>>

\* PurePath.stem of a name, with i the position of its last dot
path_stem(name, i) ==
    IF SplitsAtLastDot(name, i) THEN SubSeq(name, 1, i - 1) ELSE name

\* PurePath.suffixes of a name
path_suffixes(name) ==
    IF name # <<>> /\ Last(name) = "." THEN <<>>
    ELSE LET parts == Split(lstrip_dots(name), ".")
         IN  [k \in 1..(Len(parts) - 1) |-> <<".">> \o parts[k + 1]]

-----------------------------------------------------------------------------
(* The filesystem *)

ROOT == <<>>

\* an entry has a kind, a content, and the ids of its owner and its group
DirEntry == [kind |-> "dir", data |-> "", uid |-> 0, gid |-> 0]
FileEntry(d) == [kind |-> "file", data |-> d, uid |-> 0, gid |-> 0]
OtherEntry == [kind |-> "other", data |-> "", uid |-> 0, gid |-> 0]

\* location p is location q or above it
IsPrefix(p, q) == Len(p) <= Len(q) /\ SubSeq(q, 1, Len(p)) = p

\* the location where the resolution of a path starts
StartAt(path) == ROOT

Ok(at) == [err |-> "ok", at |-> at]
Fail(e) == [err |-> e, at |-> ROOT]

\* path resolution, component by component, from location cur
RECURSIVE Walk(_, _, _)
Walk(fsys, cur, comps) ==
    IF comps = <<>> THEN Ok(cur)
    ELSE IF fsys[cur].kind # "dir" THEN Fail("NotADirectoryError")
    ELSE LET c == Head(comps)
         IN  IF c = Dot THEN Walk(fsys, cur, Tail(comps))
             ELSE IF c = DotDot
               THEN Walk(fsys, IF cur = ROOT THEN ROOT ELSE Front(cur),
                         Tail(comps))
             ELSE IF Append(cur, c) \in DOMAIN fsys
               THEN Walk(fsys, Append(cur, c), Tail(comps))
             ELSE Fail("FileNotFoundError")

\* the outcome of the resolution w of a whole path: a path that ends with
\* a slash must lead to a directory
StatOf(fsys, path, w) ==
    IF w.err # "ok" THEN w
    ELSE IF Last(path) = SEP /\ fsys[w.at].kind # "dir"
      THEN Fail("NotADirectoryError")
    ELSE w

\* os.stat(path): the location a path designates
stat(fsys, path) ==
    IF path = <<>> THEN Fail("FileNotFoundError")
    ELSE StatOf(fsys, path, Walk(fsys, StartAt(path), NonEmptyComps(path)))

\* the kind of the entry a path designates ("none" when it designates nothing)
KindOf(fsys, s) == IF s.err = "ok" THEN fsys[s.at].kind ELSE "none"

\* os.path.exists, os.path.isdir, os.path.isfile
exists(fsys, path) == stat(fsys, path).err = "ok"

isdir(fsys, path) == KindOf(fsys, stat(fsys, path)) = "dir"

isfile(fsys, path) == KindOf(fsys, stat(fsys, path)) = "file"

\* the outcome of the resolution w of all but the last component of a
\* path (which must lead to a directory), and the last component
ParentOf(fsys, path, comps, w) ==
    IF w.err # "ok" THEN [err |-> w.err]
    ELSE IF fsys[w.at].kind # "dir" THEN [err |-> "NotADirectoryError"]
    ELSE [err |-> "ok",
          type |-> IF comps = <<>> THEN "root"
                   ELSE IF Last(comps) = Dot THEN "dot"
                   ELSE IF Last(comps) = DotDot THEN "dotdot"
                   ELSE "norm",
          at |-> IF comps = <<>> THEN ROOT ELSE Append(w.at, Last(comps)),
          slash |-> Last(path) = SEP]

LookupParentComps(fsys, path, comps) ==
    ParentOf(fsys, path, comps,
             Walk(fsys, StartAt(path),
                  IF comps = <<>> THEN comps ELSE Front(comps)))

LookupParent(fsys, path) ==
    IF path = <<>> THEN [err |-> "FileNotFoundError"]
    ELSE LookupParentComps(fsys, path, NonEmptyComps(path))

\* the tree with the entries at and below s moved to d (replacing d)
MoveTree(fsys, s, d) ==
    LET keep == {q \in DOMAIN fsys : ~IsPrefix(s, q) /\ ~IsPrefix(d, q)}
        moved == {d \o SubSeq(q, Len(s) + 1, Len(q)) :
                     q \in {x \in DOMAIN fsys : IsPrefix(s, x)}}
    IN  [q \in keep \cup moved |->
            IF IsPrefix(d, q) THEN fsys[s \o SubSeq(q, Len(d) + 1, Len(q))]
            ELSE fsys[q]]

HasChildren(fsys, at) == \E q \in DOMAIN fsys : IsPrefix(at, q) /\ q # at

RenameError(fsys, e) == [err |-> e, fs |-> fsys]

\* rename(2) once the parents of source and destination are resolved:
\* s and d are the locations of the source and of the destination
RenameAt(fsys, s, d) ==
    IF s.err # "ok" THEN RenameError(fsys, s.err)
    ELSE IF d.err # "ok" THEN RenameError(fsys, d.err)
    ELSE IF s.type # "norm" \/ d.type # "norm"
      THEN RenameError(fsys, "OSError")
    ELSE IF s.at \notin DOMAIN fsys
      THEN RenameError(fsys, "FileNotFoundError")
    ELSE IF fsys[s.at].kind # "dir" /\ (s.slash \/ d.slash)
      THEN RenameError(fsys, "NotADirectoryError")
    ELSE IF s.at = d.at THEN [err |-> "ok", fs |-> fsys]
    ELSE IF IsPrefix(s.at, d.at) \/ IsPrefix(d.at, s.at)
      THEN RenameError(fsys, "OSError")
    ELSE IF d.at \in DOMAIN fsys /\ fsys[s.at].kind = "dir"
            /\ fsys[d.at].kind # "dir"
      THEN RenameError(fsys, "NotADirectoryError")
    ELSE IF d.at \in DOMAIN fsys /\ fsys[s.at].kind = "dir"
            /\ HasChildren(fsys, d.at)
      THEN RenameError(fsys, "OSError")
    ELSE IF d.at \in DOMAIN fsys /\ fsys[s.at].kind # "dir"
            /\ fsys[d.at].kind = "dir"
      THEN RenameError(fsys, "IsADirectoryError")
    ELSE [err |-> "ok", fs |-> MoveTree(fsys, s.at, d.at)]

\* os.rename(src, dst): rename(2)
os_rename(fsys, src, dst) ==
    RenameAt(fsys, LookupParent(fsys, src), LookupParent(fsys, dst))

\* os.replace(src, dst): the same system call on POSIX
os_replace(fsys, src, dst) == os_rename(fsys, src, dst)

\* the tree without the entry at location at and without what is below it
RemoveTree(fsys, at) ==
    [q \in {x \in DOMAIN fsys : ~IsPrefix(at, x)} |-> fsys[q]]

\* the tree without what is below location at
EmptyTree(fsys, at) ==
    [q \in {x \in DOMAIN fsys : x = at \/ ~IsPrefix(at, x)} |-> fsys[q]]

\* unlink(2) once the parent of the path is resolved: t is the location of
\* the entry
UnlinkAt(fsys, t) ==
    IF t.err # "ok" THEN RenameError(fsys, t.err)
    ELSE IF t.type # "norm" THEN RenameError(fsys, "IsADirectoryError")
    ELSE IF t.at \notin DOMAIN fsys
      THEN RenameError(fsys, "FileNotFoundError")
    ELSE IF fsys[t.at].kind = "dir"
      THEN RenameError(fsys, "IsADirectoryError")
    ELSE IF t.slash THEN RenameError(fsys, "NotADirectoryError")
    ELSE [err |-> "ok", fs |-> RemoveTree(fsys, t.at)]

\* os.remove(path): unlink(2)
os_remove(fsys, path) == UnlinkAt(fsys, LookupParent(fsys, path))

\* rmdir(2) once the parent of the path is resolved: a path that ends in
\* ".." fails with ENOTEMPTY, one that ends in "." with EINVAL, the root
\* with EBUSY
RmdirAt(fsys, t) ==
    IF t.err # "ok" THEN RenameError(fsys, t.err)
    ELSE IF t.type = "dotdot" THEN RenameError(fsys, "OSError(ENOTEMPTY)")
    ELSE IF t.type = "dot" THEN RenameError(fsys, "OSError(EINVAL)")
    ELSE IF t.type = "root" THEN RenameError(fsys, "OSError(EBUSY)")
    ELSE IF t.at \notin DOMAIN fsys
      THEN RenameError(fsys, "FileNotFoundError")
    ELSE IF fsys[t.at].kind # "dir"
      THEN RenameError(fsys, "NotADirectoryError")
    ELSE IF HasChildren(fsys, t.at)
      THEN RenameError(fsys, "OSError(ENOTEMPTY)")
    ELSE [err |-> "ok", fs |-> RemoveTree(fsys, t.at)]

\* os.rmdir(path): rmdir(2)
os_rmdir(fsys, path) == RmdirAt(fsys, LookupParent(fsys, path))

\* shutil.rmtree(path) once the path is resolved to s: the path is opened
\* for reading (which blocks on a FIFO), what is below the directory is
\* removed, then the directory itself with os.rmdir
RmtreeAt(fsys, path, s) ==
    IF s.err # "ok" THEN RenameError(fsys, s.err)
    ELSE IF fsys[s.at].kind = "other" THEN RenameError(fsys, "blocked")
    ELSE IF fsys[s.at].kind # "dir"
      THEN RenameError(fsys, "NotADirectoryError")
    ELSE os_rmdir(EmptyTree(fsys, s.at), path)

\* shutil.rmtree(path)
rmtree(fsys, path) == RmtreeAt(fsys, path, stat(fsys, path))

\* the arguments of change_owner and change_group: an id, a name, or None
IdArg(i) == [type |-> "int", id |-> i, name |-> ""]
NameArg(n) == [type |-> "str", id |-> 0, name |-> n]
NoneArg == [type |-> "None", id |-> 0, name |-> ""]

\* the user database (pwd) and the group database (grp): name -> id
Users == ("root" :> 0) @@ ("daemon" :> 1) @@ ("bin" :> 2)
Groups == ("root" :> 0) @@ ("daemon" :> 1) @@ ("bin" :> 2)

\* chown(2) may be called by the process of credentials cred on entry e:
\* root may do anything; anyone else may only keep the owner of an entry it
\* owns and give it a group it belongs to (-1 asks for no change)
chown_ok(cred, e, uid, gid) ==
    \/ cred.euid = 0
    \/ /\ uid = 0 - 1 \/ (cred.euid = e.uid /\ uid = e.uid)
       /\ gid = 0 - 1 \/ (cred.euid = e.uid /\ gid \in cred.groups)

\* chown(2) once the path is resolved to s
ChownAt(fsys, cred, s, uid, gid) ==
    IF s.err # "ok" THEN RenameError(fsys, s.err)
    ELSE IF ~chown_ok(cred, fsys[s.at], uid, gid)
      THEN RenameError(fsys, "PermissionError")
    ELSE [err |-> "ok",
          fs |-> [fsys EXCEPT ![s.at].uid = IF uid = 0 - 1 THEN @ ELSE uid,
                              ![s.at].gid = IF gid = 0 - 1 THEN @ ELSE gid]]

\* os.chown(path, uid, gid)
os_chown(fsys, cred, path, uid, gid) ==
    ChownAt(fsys, cred, stat(fsys, path), uid, gid)

\* shutil.chown: the id an argument stands for in a database (-1 for None,
\* -2 for a name the database does not hold)
chown_id(database, a) ==
    IF a.type = "None" THEN 0 - 1
    ELSE IF a.type = "int" THEN a.id
    ELSE IF a.name \in DOMAIN database THEN database[a.name]
    ELSE 0 - 2

\* shutil.chown(path, user, group)
shutil_chown(fsys, cred, path, user, group) ==
    IF user.type = "None" /\ group.type = "None"
      THEN RenameError(fsys, "ValueError")
    ELSE IF chown_id(Users, user) = 0 - 2 \/ chown_id(Groups, group) = 0 - 2
      THEN RenameError(fsys, "LookupError")
    ELSE os_chown(fsys, cred, path, chown_id(Users, user),
                  chown_id(Groups, group))

\* get_random_file_name that takes the first name generated
random_name_is_free_Unchecked(fsys, directory, random_file_name) == TRUE

\* get_random_file_name that takes no name at all
random_name_is_free_Never(fsys, directory, random_file_name) == FALSE

\* get_random_file_name: "not file_path_already_exists", the test that
\* ends the loop
random_name_is_free(fsys, directory, random_file_name) ==
    ~exists(fsys, join(directory, random_file_name))

-----------------------------------------------------------------------------
(* classyfd/file/file.py and classyfd/directory/directory.py *)

\* the characters a new name must not contain
SLASHES == {BSL, SEP}

HasSlash(name) == \E i \in 1..Len(name) : name[i] \in SLASHES

\* File.__init__ that forgets normalize_path
File__init__NoNormalize(fsys, path) ==
    IF path = <<>> THEN [err |-> "InvalidFileValueError", path |-> <<>>]
    ELSE IF exists(fsys, path) /\ isdir(fsys, path)
      THEN [err |-> "IsADirectoryError", path |-> <<>>]
    ELSE [err |-> "ok", path |-> abspath(path)]

\* File.__init__ that tests the path for a file, as Directory.__init__ does
File__init__ChecksFile(fsys, path) ==
    IF path = <<>> THEN [err |-> "InvalidFileValueError", path |-> <<>>]
    ELSE IF exists(fsys, path) /\ isfile(fsys, path)
      THEN [err |-> "IsADirectoryError", path |-> <<>>]
    ELSE [err |-> "ok", path |-> normalize_path(abspath(path))]

\* File.__init__(path): the error raised, or the path stored
File__init__(fsys, path) ==
    IF path = <<>> THEN [err |-> "InvalidFileValueError", path |-> <<>>]
    ELSE IF exists(fsys, path) /\ isdir(fsys, path)
      THEN [err |-> "IsADirectoryError", path |-> <<>>]
    ELSE [err |-> "ok", path |-> normalize_path(abspath(path))]

\* Directory.__init__(path)
Directory__init__(fsys, path) ==
    IF path = <<>> THEN [err |-> "InvalidDirectoryValueError", path |-> <<>>]
    ELSE IF exists(fsys, path) /\ isfile(fsys, path)
      THEN [err |-> "NotADirectoryError", path |-> <<>>]
    ELSE [err |-> "ok", path |-> normalize_path(abspath(path))]

\* File.path = new_path without the test for an existing directory
File_path_setter_NoCheck(fsys, self_path, new_path) ==
    [err |-> "ok", path |-> normalize_path(abspath(new_path))]

\* File.path = new_path: the error raised, or the path stored
File_path_setter(fsys, self_path, new_path) ==
    IF exists(fsys, new_path) /\ isdir(fsys, new_path)
      THEN [err |-> "IsADirectoryError", path |-> self_path]
    ELSE [err |-> "ok", path |-> normalize_path(abspath(new_path))]

\* Directory.path = new_path
Directory_path_setter(fsys, self_path, new_path) ==
    IF exists(fsys, new_path) /\ isfile(fsys, new_path)
      THEN [err |-> "NotADirectoryError", path |-> self_path]
    ELSE [err |-> "ok", path |-> normalize_path(abspath(new_path))]

\* the outcome of _execute_rename after the rename r and the assignment
\* set of the new path: an error of the rename leaves everything as it was
RenameOutcome(fsys, self_path, r, set) ==
    IF r.err # "ok"
      THEN [err |-> r.err, path |-> self_path, fs |-> fsys,
            renamed |-> FALSE]
    ELSE [err |-> set.err, path |-> set.path, fs |-> r.fs, renamed |-> TRUE]

\* the end of File._execute_rename: the rename r, then
\* "self.path = new_file_path"
File_update_path(fsys, self_path, new_file_path, r) ==
    RenameOutcome(fsys, self_path, r,
                  File_path_setter(r.fs, self_path, new_file_path))

\* the branch of File._execute_rename, replacing a destination unasked
File_rename_to_AlwaysReplaces(fsys, self_path, new_file_path, file_already_exists, replace_existing_file) ==
    File_update_path(fsys, self_path, new_file_path,
                     os_replace(fsys, self_path, new_file_path))

\* the branch of File._execute_rename on the existence of the destination
File_rename_to(fsys, self_path, new_file_path, file_already_exists, replace_existing_file) ==
    IF file_already_exists /\ ~replace_existing_file
      THEN [err |-> "FileExistsError", path |-> self_path, fs |-> fsys,
            renamed |-> FALSE]
    ELSE File_update_path(fsys, self_path, new_file_path,
            IF file_already_exists
              THEN os_replace(fsys, self_path, new_file_path)
            ELSE os_rename(fsys, self_path, new_file_path))

\* File._execute_rename from the destination path on
File_rename_path(fsys, self_path, new_file_path, replace_existing_file) ==
    File_rename_to(fsys, self_path, new_file_path,
                   exists(fsys, new_file_path), replace_existing_file)

\* File._execute_rename without the test of the new name for slashes
File_execute_rename_NoNameCheck(fsys, self_path, directory, new_file_name, replace_existing_file) ==
    File_rename_path(fsys, self_path,
        join(directory, IF new_file_name # <<>> THEN new_file_name
                        ELSE path_name(self_path)),
        replace_existing_file)

\* File._execute_rename(directory, new_file_name, replace_existing_file):
\* the error raised, the path stored and the filesystem afterwards, and
\* whether os.rename / os.replace was performed
File_execute_rename(fsys, self_path, directory, new_file_name, replace_existing_file) ==
    IF new_file_name # <<>> /\ HasSlash(new_file_name)
      THEN [err |-> "InvalidFileValueError", path |-> self_path,
            fs |-> fsys, renamed |-> FALSE]
    ELSE File_rename_path(fsys, self_path,
            join(directory, IF new_file_name # <<>> THEN new_file_name
                            ELSE path_name(self_path)),
            replace_existing_file)

\* File.rename(new_file_name, replace_existing_file)
File_rename(fsys, self_path, new_file_name, replace_existing_file) ==
    File_execute_rename(fsys, self_path, path_parent(self_path),
                        new_file_name, replace_existing_file)

\* File.move(directory, new_file_name, replace_existing_file)
File_move(fsys, self_path, directory, new_file_name, replace_existing_file) ==
    File_execute_rename(fsys, self_path, directory,
                        new_file_name, replace_existing_file)

\* the end of Directory._execute_rename when the destination exists and is
\* neither a file nor a directory: no branch raises and none renames, and
\* "self.path = new_directory_path" is reached
Directory_update_path_only(fsys, self_path, set) ==
    [err |-> set.err, path |-> set.path, fs |-> fsys, renamed |-> FALSE]

\* the end of Directory._execute_rename: the rename r, then
\* "self.path = new_directory_path"
Directory_update_path(fsys, self_path, new_directory_path, r) ==
    RenameOutcome(fsys, self_path, r,
                  Directory_path_setter(r.fs, self_path, new_directory_path))

\* the branches of Directory._execute_rename on the destination, of kind
\* dest ("none" when nothing exists there)
Directory_rename_to(fsys, self_path, new_directory_path, dest) ==
    IF dest = "file"
      THEN [err |-> "FileExistsError", path |-> self_path, fs |-> fsys,
            renamed |-> FALSE]
    ELSE IF dest = "dir"
      THEN [err |-> "IsADirectoryError", path |-> self_path, fs |-> fsys,
            renamed |-> FALSE]
    ELSE IF dest # "none"
      THEN Directory_update_path_only(fsys, self_path,
              Directory_path_setter(fsys, self_path, new_directory_path))
    ELSE Directory_update_path(fsys, self_path, new_directory_path,
                               os_rename(fsys, self_path, new_directory_path))

\* Directory._execute_rename from the destination path on
Directory_rename_path(fsys, self_path, new_directory_path) ==
    Directory_rename_to(fsys, self_path, new_directory_path,
                        KindOf(fsys, stat(fsys, new_directory_path)))

\* Directory._execute_rename(base_directory, new_directory_name)
Directory_execute_rename(fsys, self_path, base_directory, new_directory_name) ==
    IF new_directory_name # <<>> /\ HasSlash(new_directory_name)
      THEN [err |-> "InvalidDirectoryValueError", path |-> self_path,
            fs |-> fsys, renamed |-> FALSE]
    ELSE Directory_rename_path(fsys, self_path,
            join(base_directory,
                 IF new_directory_name # <<>> THEN new_directory_name
                 ELSE path_name(self_path)))

\* Directory.rename(new_directory_name)
Directory_rename(fsys, self_path, new_directory_name) ==
    Directory_execute_rename(fsys, self_path, path_parent(self_path),
                             new_directory_name)

\* File.remove() that removes the directory holding the file with it
File_remove_WithParent(fsys, self_path) ==
    rmtree(fsys, path_parent(self_path))

\* File.remove that does nothing when the file is missing
File_remove_IgnoreMissing(fsys, self_path) ==
    IF exists(fsys, self_path) THEN os_remove(fsys, self_path)
    ELSE [err |-> "ok", fs |-> fsys]

\* File.remove(): the error raised and the filesystem afterwards
File_remove(fsys, self_path) == os_remove(fsys, self_path)

\* Directory.remove that uses os.rmdir whatever empty_only is
Directory_remove_EmptyOnly(fsys, self_path, empty_only) ==
    os_rmdir(fsys, self_path)

\* Directory.remove(empty_only)
Directory_remove(fsys, self_path, empty_only) ==
    IF empty_only THEN os_rmdir(fsys, self_path)
    ELSE rmtree(fsys, self_path)

\* the loop of get_parent: the parent is taken levels times (levels >= 1),
\* each time of the string the step before produced
RECURSIVE get_parent_loop(_, _)
get_parent_loop(p, levels) ==
    IF levels <= 1 THEN path_parent(p)
    ELSE get_parent_loop(path_parent(p), levels - 1)

\* get_parent that returns the path itself for levels = 0
File_get_parent_ZeroIsSelf(self_path, levels) ==
    IF levels < 0 THEN [err |-> "InvalidFileValueError", value |-> <<>>]
    ELSE IF levels = 0 THEN [err |-> "ok", value |-> self_path]
    ELSE [err |-> "ok", value |-> get_parent_loop(self_path, levels)]

\* File.get_parent(levels): the error raised, or the value returned
File_get_parent(self_path, levels) ==
    IF levels < 0 THEN [err |-> "InvalidFileValueError", value |-> <<>>]
    ELSE [err |-> "ok",
          value |-> get_parent_loop(self_path,
                                    IF levels = 0 THEN 1 ELSE levels)]

\* Directory.get_parent(levels)
Directory_get_parent(self_path, levels) ==
    IF levels < 0 THEN [err |-> "InvalidDirectoryValueError", value |-> <<>>]
    ELSE [err |-> "ok",
          value |-> get_parent_loop(self_path,
                                    IF levels = 0 THEN 1 ELSE levels)]

\* File.stem
File_stem(self_path) ==
    path_stem(path_name(self_path), rfind_dot(path_name(self_path)))

\* File.extension that returns everything from the first dot on
File_extension_FromFirstDot(self_path) ==
    Concat(path_suffixes(path_name(self_path)))

\* File.extension
File_extension(self_path) ==
    path_suffix(path_name(self_path), rfind_dot(path_name(self_path)))

\* File.extensions
File_extensions(self_path) == path_suffixes(path_name(self_path))

\* File.parent and Directory.parent
parent(self_path) == path_parent(self_path)

\* no entry of a database
NoEntry == [name |-> "", id |-> 0]

\* the outcome of a call: the filesystem afterwards, the error raised and
\* the value returned
Returned(fsys, err, value) == [fs |-> fsys, err |-> err, value |-> value]

\* File.change_owner that gives the entry the user's group as well
change_owner_WithGroup(operating_system, fsys, cred, self_path, user) ==
    IF operating_system = "windows"
      THEN Returned(fsys, "NotImplementedError", NoEntry)
    ELSE LET r == shutil_chown(fsys, cred, self_path, user, user)
         IN  Returned(r.fs, r.err, NoEntry)

\* File.change_owner(user) and Directory.change_owner(user), with
\* operating_system the value of config._OPERATING_SYSTEM: the error raised
\* and the filesystem afterwards
change_owner(operating_system, fsys, cred, self_path, user) ==
    IF operating_system = "windows"
      THEN Returned(fsys, "NotImplementedError", NoEntry)
    ELSE LET r == shutil_chown(fsys, cred, self_path, user, NoneArg)
         IN  Returned(r.fs, r.err, NoEntry)

\* File.change_group(group) and Directory.change_group(group)
change_group(operating_system, fsys, cred, self_path, group) ==
    IF operating_system = "windows"
      THEN Returned(fsys, "NotImplementedError", NoEntry)
    ELSE LET r == shutil_chown(fsys, cred, self_path, NoneArg, group)
         IN  Returned(r.fs, r.err, NoEntry)

\* the name an id has in a database ("" when it has none)
NameOfId(database, id) ==
    IF \E n \in DOMAIN database : database[n] = id
      THEN CHOOSE n \in DOMAIN database : database[n] = id
    ELSE ""

\* pathlib.Path(path).owner() or .group(), then the lookup of that name in
\* the database: the error raised, or the name and the id
database_entry(fsys, path, database, s, field) ==
    IF s.err # "ok" THEN Returned(fsys, s.err, NoEntry)
    ELSE IF NameOfId(database, fsys[s.at][field]) = ""
      THEN Returned(fsys, "KeyError", NoEntry)
    ELSE Returned(fsys, "ok",
                  [name |-> NameOfId(database, fsys[s.at][field]),
                   id |-> fsys[s.at][field]])

\* File.owner and Directory.owner
owner(operating_system, fsys, self_path) ==
    IF operating_system = "windows"
      THEN Returned(fsys, "NotImplementedError", NoEntry)
    ELSE database_entry(fsys, self_path, Users, stat(fsys, self_path), "uid")

\* File.group and Directory.group
group(operating_system, fsys, self_path) ==
    IF operating_system = "windows"
      THEN Returned(fsys, "NotImplementedError", NoEntry)
    ELSE database_entry(fsys, self_path, Groups, stat(fsys, self_path), "gid")

\* the platforms, by the value config._OPERATING_SYSTEM has on them
Platforms == { "linux", "windows" }

\* "import classyfd" on a platform: utils.py imports pwd, a module that
\* only POSIX platforms have, without a guard
import_classyfd(platform) ==
    IF platform = "windows" THEN "ModuleNotFoundError" ELSE "ok"

-----------------------------------------------------------------------------
(* The state machine of the entities *)

\* bounds of the model
MaxOps == 2
NumEntities == 2
MaxPieces == 3
MaxLevels == 3
MaxNamePieces == 4
MaxDigits == 1
MaxTries == 2

Slots == 1..NumEntities

\* entry names used by the filesystem and by the inputs
Na == <<"a">>
Nb == <<"b">>
Ns == <<"s">>
Ne == <<"e">>
No == <<"o">>
Nf == <<"f">>
Nbsl == <<BSL>>

\* the filesystem at the start: two files, a file whose name is a back
\* slash, a file whose name is {1,}, a directory holding a file, an empty
\* directory and a FIFO; nothing is called f
InitFS ==
    (ROOT :> DirEntry)
    @@ (<<Na>> :> FileEntry("A"))
    @@ (<<Nb>> :> FileEntry("B"))
    @@ (<<Nbsl>> :> FileEntry("K"))
    @@ (<<Brace>> :> FileEntry("R"))
    @@ (<<Ns>> :> DirEntry)
    @@ (<<Ns, Na>> :> FileEntry("S"))
    @@ (<<Ne>> :> DirEntry)
    @@ (<<No>> :> OtherEntry)

\* the paths given to the constructors and to the path setters
PathInputs ==
    { <<>>, Na, Slash \o Na, Slash \o Slash \o Na, Ns, Ne, No, Nf, Nbsl,
      Ns \o Slash \o Na, Ns \o Slash \o Nf \o Slash \o DotDot,
      Na \o Slash \o Nf \o Slash \o DotDot, Na \o Slash \o Nf,
      Na \o Brace, Ns \o Brace, Brace \o Na, Brace, Dot }

\* the new names given to rename (<<>> stands for None and for "")
NameInputs ==
    { <<>>, Na, Nb, Nf, Ns, Ne, No, Nbsl, Brace, Nf \o Brace, DotDot,
      Na \o Slash \o Nb }

\* the directories and new names given to move
DirectoryInputs == { Ns, Slash \o Ns, Ne, Nf, Na, Slash, <<>> }
MoveNameInputs == { <<>>, Na, Nf, Nbsl, Brace }

NoEntity == [cls |-> "none", path |-> <<>>]

Init ==
    /\ fs = InitFS
    /\ ent = [e \in Slots |-> NoEntity]
    /\ last = [op |-> "start", e |-> 0, path |-> <<>>, name |-> <<>>,
               replace |-> FALSE, err |-> "ok", fs0 |-> InitFS,
               ent0 |-> [e \in Slots |-> NoEntity], renamed |-> FALSE,
               empty_only |-> FALSE]
    /\ nops = 0
    /\ np = <<>>
    /\ nout = <<>>
    /\ arg = <<>>
    /\ ret = <<>>

\* the slot a newly constructed entity takes: the first free one
FreeSlot(e) ==
    /\ ent[e].cls = "none"
    /\ \A x \in Slots : x < e => ent[x].cls # "none"

Record(op, e, path, name, replace, err, renamed) ==
    [op |-> op, e |-> e, path |-> path, name |-> name, replace |-> replace,
     err |-> err, fs0 |-> fs, ent0 |-> ent, renamed |-> renamed,
     empty_only |-> FALSE]

\* an operation that can change only the stored path of entity e
StorePath(e, cls, r) ==
    /\ ent' = IF r.err = "ok"
                THEN [ent EXCEPT ![e] = [cls |-> cls, path |-> r.path]]
              ELSE ent
    /\ fs' = fs

\* File(path)
FileInit(e, path) ==
    /\ nops < MaxOps /\ FreeSlot(e)
    /\ LET r == File__init__(fs, path)
       IN  /\ StorePath(e, "File", r)
           /\ last' = Record("File", e, path, <<>>, FALSE, r.err, FALSE)
    /\ nops' = nops + 1
    /\ UNCHANGED <<np, nout, arg, ret>>

\* Directory(path)
DirectoryInit(e, path) ==
    /\ nops < MaxOps /\ FreeSlot(e)
    /\ LET r == Directory__init__(fs, path)
       IN  /\ StorePath(e, "Directory", r)
           /\ last' = Record("Directory", e, path, <<>>, FALSE, r.err, FALSE)
    /\ nops' = nops + 1
    /\ UNCHANGED <<np, nout, arg, ret>>

\* file.path = new_path
FileSetPath(e, new_path) ==
    /\ nops < MaxOps /\ ent[e].cls = "File"
    /\ LET r == File_path_setter(fs, ent[e].path, new_path)
       IN  /\ StorePath(e, "File", r)
           /\ last' = Record("File.path", e, new_path, <<>>, FALSE, r.err,
                             FALSE)
    /\ nops' = nops + 1
    /\ UNCHANGED <<np, nout, arg, ret>>

\* directory.path = new_path
DirectorySetPath(e, new_path) ==
    /\ nops < MaxOps /\ ent[e].cls = "Directory"
    /\ LET r == Directory_path_setter(fs, ent[e].path, new_path)
       IN  /\ StorePath(e, "Directory", r)
           /\ last' = Record("Directory.path", e, new_path, <<>>, FALSE,
                             r.err, FALSE)
    /\ nops' = nops + 1
    /\ UNCHANGED <<np, nout, arg, ret>>

\* file.rename(new_file_name, replace_existing_file)
FileRename(e, new_file_name, replace_existing_file) ==
    /\ nops < MaxOps /\ ent[e].cls = "File"
    /\ LET r == File_rename(fs, ent[e].path, new_file_name,
                            replace_existing_file)
       IN  /\ ent' = [ent EXCEPT ![e].path = r.path]
           /\ fs' = r.fs
           /\ last' = Record("File.rename", e, <<>>, new_file_name,
                             replace_existing_file, r.err, r.renamed)
    /\ nops' = nops + 1
    /\ UNCHANGED <<np, nout, arg, ret>>

\* file.move(directory, new_file_name, replace_existing_file)
FileMove(e, directory, new_file_name, replace_existing_file) ==
    /\ nops < MaxOps /\ ent[e].cls = "File"
    /\ LET r == File_move(fs, ent[e].path, directory, new_file_name,
                          replace_existing_file)
       IN  /\ ent' = [ent EXCEPT ![e].path = r.path]
           /\ fs' = r.fs
           /\ last' = Record("File.move", e, directory, new_file_name,
                             replace_existing_file, r.err, r.renamed)
    /\ nops' = nops + 1
    /\ UNCHANGED <<np, nout, arg, ret>>

\* directory.rename(new_directory_name)
DirectoryRename(e, new_directory_name) ==
    /\ nops < MaxOps /\ ent[e].cls = "Directory"
    /\ LET r == Directory_rename(fs, ent[e].path, new_directory_name)
       IN  /\ ent' = [ent EXCEPT ![e].path = r.path]
           /\ fs' = r.fs
           /\ last' = Record("Directory.rename", e, <<>>,
                             new_directory_name, FALSE, r.err, r.renamed)
    /\ nops' = nops + 1
    /\ UNCHANGED <<np, nout, arg, ret>>

\* file.remove()
FileRemove(e) ==
    /\ nops < MaxOps /\ ent[e].cls = "File"
    /\ LET r == File_remove(fs, ent[e].path)
       IN  /\ fs' = r.fs
           /\ last' = Record("File.remove", e, <<>>, <<>>, FALSE, r.err,
                             FALSE)
    /\ ent' = ent
    /\ nops' = nops + 1
    /\ UNCHANGED <<np, nout, arg, ret>>

\* directory.remove(empty_only); a call that blocks never returns
DirectoryRemove(e, empty_only) ==
    /\ nops < MaxOps /\ ent[e].cls = "Directory"
    /\ LET r == Directory_remove(fs, ent[e].path, empty_only)
       IN  /\ r.err # "blocked"
           /\ fs' = r.fs
           /\ last' = [Record("Directory.remove", e, <<>>, <<>>, FALSE,
                              r.err, FALSE)
                         EXCEPT !.empty_only = empty_only]
    /\ ent' = ent
    /\ nops' = nops + 1
    /\ UNCHANGED <<np, nout, arg, ret>>

Next ==
    \/ \E e \in Slots, path \in PathInputs : FileInit(e, path)
    \/ \E e \in Slots, path \in PathInputs : DirectoryInit(e, path)
    \/ \E e \in Slots, path \in PathInputs : FileSetPath(e, path)
    \/ \E e \in Slots, path \in PathInputs : DirectorySetPath(e, path)
    \/ \E e \in Slots, name \in NameInputs, replace \in BOOLEAN :
          FileRename(e, name, replace)
    \/ \E e \in Slots, directory \in DirectoryInputs,
          name \in MoveNameInputs, replace \in BOOLEAN :
          FileMove(e, directory, name, replace)
    \/ \E e \in Slots, name \in NameInputs : DirectoryRename(e, name)
    \/ \E e \in Slots : FileRemove(e)
    \/ \E e \in Slots, empty_only \in BOOLEAN : DirectoryRemove(e, empty_only)

Spec == Init /\ [][Next]_vars

-----------------------------------------------------------------------------
(* The study of normalize_path as a function *)

\* the pieces paths are made of
Pieces == { Slash, <<"a">>, Dot, DotDot, Brace, <<BSL>> }

RECURSIVE PieceSeqs(_)
PieceSeqs(n) ==
    IF n = 0 THEN { <<>> }
    ELSE LET shorter == PieceSeqs(n - 1)
         IN  shorter \cup { s \o p : s \in shorter, p \in Pieces }

NormInputs == PieceSeqs(MaxPieces)

InitNorm ==
    /\ np \in NormInputs
    /\ nout = <<>>
    /\ fs = InitFS
    /\ ent = [e \in Slots |-> NoEntity]
    /\ last = [op |-> "start", e |-> 0, path |-> <<>>, name |-> <<>>,
               replace |-> FALSE, err |-> "ok", fs0 |-> InitFS,
               ent0 |-> [e \in Slots |-> NoEntity], renamed |-> FALSE,
               empty_only |-> FALSE]
    /\ nops = 0
    /\ arg = <<>>
    /\ ret = <<>>

\* normalize_path applied to the input, then to its own result
Normalize ==
    /\ Len(nout) < 2
    /\ nout' = Append(nout, normalize_path(IF nout = <<>> THEN np
                                           ELSE Last(nout)))
    /\ UNCHANGED <<fs, ent, last, nops, np, arg, ret>>

NextNorm == Normalize

SpecNorm == InitNorm /\ [][NextNorm]_vars

-----------------------------------------------------------------------------
(* The study of a rename and the rename back *)

\* the state before anything is constructed, for a study with inputs a
StudyInit(a) ==
    /\ arg = a
    /\ ret = <<>>
    /\ fs = InitFS
    /\ ent = [e \in Slots |-> NoEntity]
    /\ last = [op |-> "start", e |-> 0, path |-> <<>>, name |-> <<>>,
               replace |-> FALSE, err |-> "ok", fs0 |-> InitFS,
               ent0 |-> [e \in Slots |-> NoEntity], renamed |-> FALSE,
               empty_only |-> FALSE]
    /\ nops = 0
    /\ np = <<>>
    /\ nout = <<>>

\* the inputs: the path of the file and the name it is renamed to
InitTrip ==
    \E path \in PathInputs, name \in NameInputs :
        StudyInit([path |-> path, name |-> name])

\* the path the File of the study stores when constructed
TripPath == File__init__(InitFS, arg.path).path

\* f = File(path)
TripConstruct ==
    /\ ret = <<>>
    /\ LET r == File__init__(fs, arg.path)
       IN  /\ StorePath(1, "File", r)
           /\ last' = Record("File", 1, arg.path, <<>>, FALSE, r.err, FALSE)
           /\ ret' = <<r.err>>
    /\ nops' = nops + 1
    /\ UNCHANGED <<np, nout, arg>>

\* the step of the study that renames the File to new_file_name
TripStep(new_file_name) ==
    /\ LET r == File_rename(fs, ent[1].path, new_file_name, FALSE)
       IN  /\ ent' = [ent EXCEPT ![1].path = r.path]
           /\ fs' = r.fs
           /\ last' = Record("File.rename", 1, <<>>, new_file_name, FALSE,
                             r.err, r.renamed)
           /\ ret' = Append(ret, r.err)
    /\ nops' = nops + 1
    /\ UNCHANGED <<np, nout, arg>>

\* f.rename(name)
TripRename == ret = <<"ok">> /\ TripStep(arg.name)

\* f.rename(the name f had when constructed)
TripRenameBack == ret = <<"ok", "ok">> /\ TripStep(path_name(TripPath))

NextTrip == TripConstruct \/ TripRename \/ TripRenameBack

SpecTrip == InitTrip /\ [][NextTrip]_vars

-----------------------------------------------------------------------------
(* The study of get_parent *)

\* the paths of the entities of the study: those of the other studies, a
\* path three levels deep and one that is written with ".."
ParentPathInputs ==
    (PathInputs \ {<<>>})
    \cup { Nf \o Slash \o Nf \o Slash \o Nf,
           Ne \o Slash \o Nf \o Slash \o Nf \o Slash \o DotDot }

\* the inputs: the class and the path of the entity, and the levels asked
InitParent ==
    \E cls \in {"File", "Directory"}, path \in ParentPathInputs,
       levels \in (0 - 1)..MaxLevels :
        StudyInit([cls |-> cls, path |-> path, levels |-> levels])

\* x = File(path) or x = Directory(path)
ParentConstruct ==
    /\ ret = <<>>
    /\ LET r == IF arg.cls = "File" THEN File__init__(fs, arg.path)
                ELSE Directory__init__(fs, arg.path)
       IN  /\ StorePath(1, arg.cls, r)
           /\ last' = Record(arg.cls, 1, arg.path, <<>>, FALSE, r.err, FALSE)
           /\ ret' = <<r>>
    /\ nops' = nops + 1
    /\ UNCHANGED <<np, nout, arg>>

\* x.get_parent(levels)
GetParent ==
    /\ Len(ret) = 1 /\ ret[1].err = "ok"
    /\ ret' = Append(ret, IF arg.cls = "File"
                            THEN File_get_parent(ent[1].path, arg.levels)
                          ELSE Directory_get_parent(ent[1].path, arg.levels))
    /\ UNCHANGED <<fs, ent, last, nops, np, nout, arg>>

NextParent == ParentConstruct \/ GetParent

SpecParent == InitParent /\ [][NextParent]_vars

-----------------------------------------------------------------------------
(* The study of stem, extension and extensions *)

\* the pieces file names are made of
NamePieces == { <<".">>, <<"a">>, <<"b">> }

RECURSIVE NameSeqs(_)
NameSeqs(n) ==
    IF n = 1 THEN NamePieces
    ELSE LET shorter == NameSeqs(n - 1)
         IN  shorter \cup { s \o p : s \in shorter, p \in NamePieces }

BackupTarGz ==
    <<"b", "a", "c", "k", "u", "p", ".", "t", "a", "r", ".", "g", "z">>

\* the names of the files of the study
FileNameInputs == NameSeqs(MaxNamePieces) \cup { BackupTarGz }

\* the inputs: the path of the file, a name in the working directory or
\* in the directory s
InitName ==
    \E name \in FileNameInputs, dir \in { <<>>, Ns \o Slash } :
        StudyInit([path |-> dir \o name])

\* f = File(path)
NameConstruct ==
    /\ ret = <<>>
    /\ LET r == File__init__(fs, arg.path)
       IN  /\ StorePath(1, "File", r)
           /\ last' = Record("File", 1, arg.path, <<>>, FALSE, r.err, FALSE)
           /\ ret' = <<r>>
    /\ nops' = nops + 1
    /\ UNCHANGED <<np, nout, arg>>

\* f.name, f.stem, f.extension and f.extensions
NameParts ==
    /\ Len(ret) = 1 /\ ret[1].err = "ok"
    /\ ret' = Append(ret, [name |-> path_name(ent[1].path),
                           stem |-> File_stem(ent[1].path),
                           extension |-> File_extension(ent[1].path),
                           extensions |-> File_extensions(ent[1].path)])
    /\ UNCHANGED <<fs, ent, last, nops, np, nout, arg>>

NextName == NameConstruct \/ NameParts

SpecName == InitName /\ [][NextName]_vars

-----------------------------------------------------------------------------
(* The study of get_random_file_name *)

\* the name of CHARACTER_LENGTH times the first valid character
FirstName == [i \in 1..CHARACTER_LENGTH |-> VALID_CHARACTERS[1]]

\* the filesystem of the study: directory s also holds a file of that name
RandomFS == InitFS @@ (<<Ns, FirstName>> :> FileEntry("T"))

\* the outcomes of random.choice in the study: the first letter and the
\* first digit
RandomDraws == { 1, Len(LETTERS) + 1 }

\* the number of digits of a name
RECURSIVE DigitsOf(_)
DigitsOf(name) ==
    IF name = <<>> THEN 0
    ELSE DigitsOf(Tail(name))
         + (IF \E k \in 1..Len(NUMBERS) : NUMBERS[k] = Head(name)
              THEN 1 ELSE 0)

\* the state when the loop is about to start, for a directory and for the
\* number of digits that the draws of the run put in a name at most (with
\* 0, the keyspace of the run is the one name FirstName)
RandomStart(directory, digits) ==
    /\ arg = [directory |-> directory, digits |-> digits]
    /\ ret = [pc |-> "loop", random_file_name |-> <<>>, tries |-> 0]
    /\ fs = RandomFS
    /\ ent = [e \in Slots |-> NoEntity]
    /\ last = [op |-> "start", e |-> 0, path |-> <<>>, name |-> <<>>,
               replace |-> FALSE, err |-> "ok", fs0 |-> RandomFS,
               ent0 |-> [e \in Slots |-> NoEntity], renamed |-> FALSE,
               empty_only |-> FALSE]
    /\ nops = 0
    /\ np = <<>>
    /\ nout = <<>>

\* the input: the directory the name is for
InitRandom ==
    \E directory \in { Ns, Slash \o Ns, Ne, Nf } :
        RandomStart(directory, MaxDigits)

\* the inputs of the study of termination: a directory that holds
\* FirstName or an empty one, and a run whose keyspace is the one name
\* FirstName (no digit) or FirstName and the names with one digit
InitRandomFair ==
    \E directory \in { Ns, Ne }, digits \in {0, 1} :
        RandomStart(directory, digits)

\* random_file_name += random.choice(VALID_CHARACTERS), the choice being
\* VALID_CHARACTERS[k]
RandomDraw(k) ==
    /\ ret.pc = "loop" /\ Len(ret.random_file_name) < CHARACTER_LENGTH
    /\ LET longer == Append(ret.random_file_name, VALID_CHARACTERS[k])
       IN  /\ DigitsOf(longer) <= arg.digits
           /\ ret' = [ret EXCEPT !.random_file_name = longer]
    /\ UNCHANGED <<fs, ent, last, nops, np, nout, arg>>

RandomChoice == \E k \in RandomDraws : RandomDraw(k)

\* the name is complete and its path exists: try again (the tries are
\* counted up to MaxTries)
RandomRetry ==
    /\ ret.pc = "loop" /\ Len(ret.random_file_name) = CHARACTER_LENGTH
    /\ ~random_name_is_free(fs, arg.directory, ret.random_file_name)
    /\ ret' = [ret EXCEPT !.random_file_name = <<>>,
                          !.tries = IF @ < MaxTries THEN @ + 1 ELSE @]
    /\ UNCHANGED <<fs, ent, last, nops, np, nout, arg>>

\* the name is complete and its path does not exist: return it
RandomReturn ==
    /\ ret.pc = "loop" /\ Len(ret.random_file_name) = CHARACTER_LENGTH
    /\ random_name_is_free(fs, arg.directory, ret.random_file_name)
    /\ ret' = [ret EXCEPT !.pc = "return"]
    /\ UNCHANGED <<fs, ent, last, nops, np, nout, arg>>

NextRandom == RandomChoice \/ RandomRetry \/ RandomReturn

SpecRandom == InitRandom /\ [][NextRandom]_vars

\* random.choice is fair: a character that can be drawn again and again is
\* drawn at some time; the loop itself goes on as long as it can
SpecRandomFair ==
    /\ InitRandomFair /\ [][NextRandom]_vars
    /\ \A k \in RandomDraws : SF_vars(RandomDraw(k))
    /\ WF_vars(RandomRetry)
    /\ WF_vars(RandomReturn)

-----------------------------------------------------------------------------
(* The study of owner, group, change_owner and change_group *)

\* the filesystem of the study: the file a and the directory s belong to
\* the user daemon and its group
OwnerFS ==
    [InitFS EXCEPT ![<<Na>>].uid = 1, ![<<Na>>].gid = 1,
                   ![<<Ns>>].uid = 1, ![<<Ns>>].gid = 1]

\* the processes of the study: one of root, one of the user daemon
Credentials == { [euid |-> 0, groups |-> {0}], [euid |-> 1, groups |-> {1}] }

\* the users and groups asked for: ids (one that no database holds, and -1),
\* names (one that no database holds) and None
PrincipalInputs ==
    { IdArg(0), IdArg(1), IdArg(2), IdArg(7), IdArg(0 - 1), NameArg("root"),
      NameArg("daemon"), NameArg("nosuch"), NoneArg }

\* the inputs: the platform, the process, the class and the path of the
\* entity, the operation called and its argument
InitOwner ==
    \E platform \in Platforms, cred \in Credentials,
       cls \in {"File", "Directory"},
       path \in { Na, Nb, Ns, Nf, Na \o Slash \o Nf, Ns \o Slash \o Na },
       op \in {"owner", "group", "change_owner", "change_group"},
       a \in PrincipalInputs :
        /\ op \in {"owner", "group"} => a = NoneArg
        /\ arg = [platform |-> platform, cred |-> cred, cls |-> cls,
                  path |-> path, op |-> op, a |-> a]
        /\ ret = [pc |-> "start", err |-> "ok", value |-> NoEntry]
        /\ fs = OwnerFS
        /\ ent = [e \in Slots |-> NoEntity]
        /\ last = [op |-> "start", e |-> 0, path |-> <<>>, name |-> <<>>,
                   replace |-> FALSE, err |-> "ok", fs0 |-> OwnerFS,
                   ent0 |-> [e \in Slots |-> NoEntity], renamed |-> FALSE,
                   empty_only |-> FALSE]
        /\ nops = 0
        /\ np = <<>>
        /\ nout = <<>>

\* import classyfd
OwnerImport ==
    /\ ret.pc = "start"
    /\ LET err == import_classyfd(arg.platform)
       IN  ret' = [ret EXCEPT !.pc = IF err = "ok" THEN "imported"
                                     ELSE "done",
                              !.err = err]
    /\ UNCHANGED <<fs, ent, last, nops, np, nout, arg>>

\* x = File(path) or x = Directory(path)
OwnerConstruct ==
    /\ ret.pc = "imported"
    /\ LET r == IF arg.cls = "File" THEN File__init__(fs, arg.path)
                ELSE Directory__init__(fs, arg.path)
       IN  /\ StorePath(1, arg.cls, r)
           /\ last' = Record(arg.cls, 1, arg.path, <<>>, FALSE, r.err, FALSE)
           /\ ret' = [ret EXCEPT !.pc = IF r.err = "ok" THEN "constructed"
                                         ELSE "done",
                                  !.err = r.err]
    /\ nops' = nops + 1
    /\ UNCHANGED <<np, nout, arg>>

\* x.owner, x.group, x.change_owner(a) or x.change_group(a)
OwnerCall ==
    /\ ret.pc = "constructed"
    /\ LET r == IF arg.op = "change_owner"
                  THEN change_owner(arg.platform, fs, arg.cred, ent[1].path,
                                    arg.a)
                ELSE IF arg.op = "change_group"
                  THEN change_group(arg.platform, fs, arg.cred, ent[1].path,
                                    arg.a)
                ELSE IF arg.op = "owner"
                  THEN owner(arg.platform, fs, ent[1].path)
                ELSE group(arg.platform, fs, ent[1].path)
       IN  /\ fs' = r.fs
           /\ last' = Record(arg.op, 1, <<>>, <<>>, FALSE, r.err, FALSE)
           /\ ret' = [pc |-> "done", err |-> r.err, value |-> r.value]
    /\ ent' = ent
    /\ nops' = nops + 1
    /\ UNCHANGED <<np, nout, arg>>

NextOwner == OwnerImport \/ OwnerConstruct \/ OwnerCall

SpecOwner == InitOwner /\ [][NextOwner]_vars

-----------------------------------------------------------------------------
(* The study of exists, is_file and is_dir on a filesystem that other      *)
(* programs change                                                         *)

MaxChanges == 2

\* File.exists and Directory.exists
exists_property(fsys, self_path) == exists(fsys, self_path)

\* File.is_file that answers from the filesystem the entity was created on
File_is_file_Cached(fsys, self_path) == isfile(InitFS, self_path)

\* File.is_file
File_is_file(fsys, self_path) == isfile(fsys, self_path)

\* Directory.is_dir
Directory_is_dir(fsys, self_path) == isdir(fsys, self_path)

\* the locations other programs change
ChangedLocations == { <<Na>>, <<Nf>>, <<Ns>>, <<Ns, Na>>, <<Ne>> }

\* the entry of a kind that another program creates, marked X
NewEntry(kind) ==
    IF kind = "dir" THEN [DirEntry EXCEPT !.data = "X"]
    ELSE IF kind = "file" THEN FileEntry("X")
    ELSE [OtherEntry EXCEPT !.data = "X"]

\* the inputs: the class and the path of the entity
InitLive ==
    \E cls \in {"File", "Directory"},
       path \in { Na, Nf, Ns, Ne, Ns \o Slash \o Na, Na \o Slash \o Nf,
                  Nf \o Brace } :
        /\ StudyInit([cls |-> cls, path |-> path])


\* x = File(path) or x = Directory(path)
LiveConstruct ==
    /\ ret = <<>>
    /\ LET r == IF arg.cls = "File" THEN File__init__(fs, arg.path)
                ELSE Directory__init__(fs, arg.path)
       IN  /\ StorePath(1, arg.cls, r)
           /\ last' = Record(arg.cls, 1, arg.path, <<>>, FALSE, r.err, FALSE)
           /\ ret' = [err |-> r.err, changes |-> 0, asked |-> FALSE,
                      exists |-> FALSE, is_kind |-> FALSE]
    /\ nops' = nops + 1
    /\ UNCHANGED <<np, nout, arg>>

\* another program removes what is at a location and, unless kind is
\* "none", creates an entry of that kind there
LiveExternal(at, kind) ==
    /\ ret # <<>> /\ ret.err = "ok" /\ ret.changes < MaxChanges
    /\ at \in DOMAIN fs \/ kind # "none"
    /\ Front(at) \in DOMAIN fs /\ fs[Front(at)].kind = "dir"
    /\ fs' = IF kind = "none" THEN RemoveTree(fs, at)
             ELSE RemoveTree(fs, at) @@ (at :> NewEntry(kind))
    /\ fs' # fs
    /\ ret' = [ret EXCEPT !.changes = @ + 1, !.asked = FALSE]
    /\ UNCHANGED <<ent, last, nops, np, nout, arg>>

\* x.exists, and x.is_file or x.is_dir
LiveQuery ==
    /\ ret # <<>> /\ ret.err = "ok" /\ ~ret.asked
    /\ ret' = [ret EXCEPT !.asked = TRUE,
                          !.exists = exists_property(fs, ent[1].path),
                          !.is_kind = IF arg.cls = "File"
                                        THEN File_is_file(fs, ent[1].path)
                                      ELSE Directory_is_dir(fs, ent[1].path)]
    /\ UNCHANGED <<fs, ent, last, nops, np, nout, arg>>

NextLive ==
    \/ LiveConstruct
    \/ \E at \in ChangedLocations, kind \in {"none", "file", "dir", "other"} :
          LiveExternal(at, kind)
    \/ LiveQuery

SpecLive == InitLive /\ [][NextLive]_vars

-----------------------------------------------------------------------------
(* The study of a rename or move step by step, next to another program     *)

\* the path File._execute_rename and Directory._execute_rename rename to
rename_destination(self_path, directory, new_name) ==
    join(directory, IF new_name # <<>> THEN new_name ELSE path_name(self_path))

\* a replacement made by removing the destination and then renaming
rename_calls_RemoveThenRename(fsys, self_path, new_file_path, file_already_exists) ==
    IF file_already_exists
      THEN << os_remove(fsys, new_file_path),
              os_rename(os_remove(fsys, new_file_path).fs, self_path,
                        new_file_path) >>
    ELSE << os_rename(fsys, self_path, new_file_path) >>

\* the system calls by which File._execute_rename changes the filesystem,
\* each with its outcome: one os.replace when the destination was found to
\* exist, one os.rename otherwise
rename_calls(fsys, self_path, new_file_path, file_already_exists) ==
    IF file_already_exists
      THEN << os_replace(fsys, self_path, new_file_path) >>
    ELSE << os_rename(fsys, self_path, new_file_path) >>

\* the locations where the other program creates an entry
CreatedLocations == { <<Nf>>, <<Ns, Nf>>, <<Ne, Na>>, <<Ne, Nf>> }

\* the inputs: the class and the path of the entity, the directory moved to
\* (<<>> for a rename), the new name and replace_existing_file; a Directory
\* is only renamed
InitRace ==
    \E cls \in {"File", "Directory"},
       path \in { Na, Ns, Ne, Nf, Ns \o Slash \o Na },
       directory \in { <<>>, Ns, Ne },
       name \in { <<>>, Nf, Nb, Na, Ne, Na \o Slash \o Nb },
       replace \in BOOLEAN :
        /\ cls = "Directory" => directory = <<>> /\ ~replace
        /\ StudyInit([cls |-> cls, path |-> path, directory |-> directory,
                      name |-> name, replace |-> replace])

\* x = File(path) or x = Directory(path)
RaceConstruct ==
    /\ ret = <<>>
    /\ LET r == IF arg.cls = "File" THEN File__init__(fs, arg.path)
                ELSE Directory__init__(fs, arg.path)
       IN  /\ StorePath(1, arg.cls, r)
           /\ last' = Record(arg.cls, 1, arg.path, <<>>, FALSE, r.err, FALSE)
           /\ ret' = [pc |-> IF r.err = "ok" THEN "constructed" ELSE "done",
                      err |-> r.err, new_path |-> <<>>, dest |-> "none",
                      calls |-> <<>>, created |-> <<>>]
    /\ nops' = nops + 1
    /\ UNCHANGED <<np, nout, arg>>

\* the directory the study renames in
RaceDirectory ==
    IF arg.directory = <<>> THEN parent(ent[1].path) ELSE arg.directory

\* _execute_rename up to the test of the destination for existence
RaceCheck ==
    /\ ret # <<>> /\ ret.pc = "constructed"
    /\ IF arg.name # <<>> /\ HasSlash(arg.name)
         THEN ret' = [ret EXCEPT !.pc = "done",
                         !.err = IF arg.cls = "File"
                                   THEN "InvalidFileValueError"
                                 ELSE "InvalidDirectoryValueError"]
       ELSE LET new_path == rename_destination(ent[1].path, RaceDirectory,
                                               arg.name)
            IN  ret' = [ret EXCEPT !.pc = "checked", !.new_path = new_path,
                            !.dest = KindOf(fs, stat(fs, new_path))]
    /\ last' = [Record(IF arg.cls = "Directory" THEN "Directory.rename"
                       ELSE IF arg.directory = <<>> THEN "File.rename"
                       ELSE "File.move",
                       1, arg.directory, arg.name, arg.replace, "ok", FALSE)
                  EXCEPT !.err = ret'.err]
    /\ UNCHANGED <<fs, ent, nops, np, nout, arg>>

\* the other program creates an entry at a free location, once the
\* destination has been tested
RaceCreate(at, kind) ==
    /\ ret # <<>> /\ ret.pc = "checked" /\ ret.created = <<>>
    /\ at \notin DOMAIN fs
    /\ Front(at) \in DOMAIN fs /\ fs[Front(at)].kind = "dir"
    /\ fs' = fs @@ (at :> NewEntry(kind))
    /\ ret' = [ret EXCEPT !.created = at]
    /\ UNCHANGED <<ent, last, nops, np, nout, arg>>

\* the outcome of _execute_rename is known: the path is stored
RaceFinish(out) ==
    /\ fs' = out.fs
    /\ ent' = [ent EXCEPT ![1].path = out.path]
    /\ last' = [last EXCEPT !.err = out.err, !.renamed = out.renamed]
    /\ ret' = [ret EXCEPT !.pc = "done", !.err = out.err, !.calls = <<>>]

\* _execute_rename after the test: it raises, or goes on to its system calls
RaceAct ==
    /\ ret # <<>> /\ ret.pc = "checked"
    /\ IF arg.cls = "File" /\ ret.dest # "none" /\ ~arg.replace
         THEN RaceFinish(File_rename_to(fs, ent[1].path, ret.new_path, TRUE,
                                        FALSE))
       ELSE IF arg.cls = "Directory" /\ ret.dest # "none"
         THEN RaceFinish(Directory_rename_to(fs, ent[1].path, ret.new_path,
                                             ret.dest))
       ELSE /\ ret' = [ret EXCEPT !.pc = "calling",
                           !.calls = rename_calls(fs, ent[1].path,
                                                  ret.new_path,
                                                  ret.dest # "none")]
            /\ UNCHANGED <<fs, ent, last>>
    /\ UNCHANGED <<nops, np, nout, arg>>

\* one system call of _execute_rename is performed; after the last one, or
\* one that fails, "self.path = new_file_path" follows
RaceCall ==
    /\ ret # <<>> /\ ret.pc = "calling"
    /\ LET r == Head(ret.calls)
       IN  IF r.err = "ok" /\ Len(ret.calls) > 1
             THEN /\ fs' = r.fs
                  /\ ret' = [ret EXCEPT !.calls = Tail(@)]
                  /\ UNCHANGED <<ent, last>>
           ELSE IF arg.cls = "File"
             THEN RaceFinish(File_update_path(fs, ent[1].path, ret.new_path,
                                              r))
           ELSE RaceFinish(Directory_update_path(fs, ent[1].path,
                                                 ret.new_path, r))
    /\ UNCHANGED <<nops, np, nout, arg>>

NextRace ==
    \/ RaceConstruct
    \/ RaceCheck
    \/ \E at \in CreatedLocations, kind \in {"file", "dir", "other"} :
          RaceCreate(at, kind)
    \/ RaceAct
    \/ RaceCall

SpecRace == InitRace /\ [][NextRace]_vars

-----------------------------------------------------------------------------
(* The study of several entities on one filesystem *)

Nd == <<"d">>

\* the filesystem of the study: the one of the start and an empty
\* directory d
HandlesFS == (<<Nd>> :> DirEntry) @@ InitFS

\* the entities constructed at the start: a File on the file a, a File on
\* the free name f, a Directory on the empty directory e
HandleInputs ==
    { [cls |-> "File", path |-> Na], [cls |-> "File", path |-> Nf],
      [cls |-> "Directory", path |-> Ne] }

\* the entity File(path) or Directory(path) constructs on the filesystem
Constructed(fsys, h) ==
    LET r == IF h.cls = "File" THEN File__init__(fsys, h.path)
             ELSE Directory__init__(fsys, h.path)
    IN  IF r.err = "ok" THEN [cls |-> h.cls, path |-> r.path] ELSE NoEntity

\* the new names and the directories given to rename and move
HandleNames == { Nf, Nd }
HandleDirectories == { Ns }

\* every entity is constructed, two of them possibly on the same path
InitHandles ==
    /\ fs = HandlesFS
    /\ \E h \in [Slots -> HandleInputs] :
          ent = [e \in Slots |-> Constructed(HandlesFS, h[e])]
    /\ last = [op |-> "start", e |-> 0, path |-> <<>>, name |-> <<>>,
               replace |-> FALSE, err |-> "ok", fs0 |-> fs, ent0 |-> ent,
               renamed |-> FALSE, empty_only |-> FALSE]
    /\ nops = 0
    /\ np = <<>>
    /\ nout = <<>>
    /\ arg = <<>>
    /\ ret = <<>>

NextHandles ==
    \/ \E e \in Slots, name \in HandleNames, replace \in BOOLEAN :
          FileRename(e, name, replace)
    \/ \E e \in Slots, directory \in HandleDirectories, replace \in BOOLEAN :
          FileMove(e, directory, <<>>, replace)
    \/ \E e \in Slots : FileRemove(e)
    \/ \E e \in Slots, name \in HandleNames : DirectoryRename(e, name)

SpecHandles == InitHandles /\ [][NextHandles]_vars

-----------------------------------------------------------------------------
(* Vocabulary of the properties: the last operation, seen from the        *)
(* filesystem                                                              *)

\* the path string of a location
PathOf(at) ==
    IF at = ROOT THEN Slash
    ELSE Concat([i \in 1..Len(at) |-> Slash \o at[i]])

\* a path designates an existing entry of the given kind
Designates(fsys, path, kind) == KindOf(fsys, stat(fsys, path)) = kind

\* the last operation left the filesystem and every entity as they were
NothingChanged == fs = last.fs0 /\ ent = last.ent0

\* the last operation is a rename or a move of a File
IsFileRenameOrMove == last.op \in {"File.rename", "File.move"}

\* the entry the entity of the last operation designated before it
SourceAt == stat(last.fs0, last.ent0[last.e].path)

SourceIsFile ==
    SourceAt.err = "ok" /\ last.fs0[SourceAt.at].kind = "file"

\* the name the last rename or move gives: the new name, or the current one
DestName == IF last.name # <<>> THEN last.name ELSE Last(SourceAt.at)

\* the directory the last rename or move targets: the directory of the
\* source for a rename, the directory given for a move
DestDirAt ==
    IF last.op = "File.move" THEN stat(last.fs0, last.path)
    ELSE Ok(Front(SourceAt.at))

DestDirIsDirectory ==
    DestDirAt.err = "ok" /\ last.fs0[DestDirAt.at].kind = "dir"

\* the location the last rename or move targets
DestAt == Append(DestDirAt.at, DestName)

\* an entry existed at the destination before the last rename or move
DestOccupied == DestDirIsDirectory /\ DestAt \in DOMAIN last.fs0

\* the error a class raises for an invalid value
InvalidValueError(cls) ==
    IF cls = "File" THEN "InvalidFileValueError"
    ELSE "InvalidDirectoryValueError"

\* the kind of entry a class must not be constructed on
WrongKind(cls) == IF cls = "File" THEN "dir" ELSE "file"

-----------------------------------------------------------------------------
(* Properties *)

\* C1: constructing File(p) or Directory(p) from a non-empty path p that
\* does not designate an entry of the wrong type yields an entity whose
\* path is normalize_path(abspath(p)) and leaves the filesystem unchanged;
\* constructing from the empty string fails with InvalidFileValueError /
\* InvalidDirectoryValueError and creates no entity.
C1_ConstructionStoresNormalizedPath ==
    last.op \in {"File", "Directory"} =>
        /\ fs = last.fs0
        /\ last.path = <<>> =>
              last.err = InvalidValueError(last.op) /\ ent = last.ent0
        /\ (/\ last.path # <<>>
            /\ ~Designates(last.fs0, last.path, WrongKind(last.op))) =>
              /\ last.err = "ok"
              /\ ent = [last.ent0 EXCEPT ![last.e] =
                           [cls |-> last.op,
                            path |-> normalize_path(abspath(last.path))]]

\* C1 witness: File("//a") was constructed and stores "/a"
C1_Witness ==
    /\ last.op = "File" /\ last.err = "ok"
    /\ last.path = <<"/", "/", "a">>
    /\ ent[last.e] = [cls |-> "File", path |-> <<"/", "a">>]

\* C2: constructing a File from a path that designates an existing
\* directory fails with IsADirectoryError, and constructing a Directory
\* from a path that designates an existing file fails with
\* NotADirectoryError; no entity is created and the filesystem is unchanged.
C2_ConstructionRejectsWrongType ==
    /\ (last.op = "File" /\ Designates(last.fs0, last.path, "dir")) =>
          last.err = "IsADirectoryError" /\ NothingChanged
    /\ (last.op = "Directory" /\ Designates(last.fs0, last.path, "file")) =>
          last.err = "NotADirectoryError" /\ NothingChanged

\* C2 witness: File("s") was refused, s being a directory
C2_Witness ==
    /\ last.op = "File" /\ last.path = Ns
    /\ Designates(last.fs0, last.path, "dir")
    /\ last.err = "IsADirectoryError"

\* C3 as stated: renaming a File A to the name of an existing entry B of
\* its directory, or moving it onto an existing path B, with
\* replace_existing_file=False fails with FileExistsError and leaves A, B
\* and the stored path as they were.
C3_ExistingDestinationFailsAsStated ==
    (/\ IsFileRenameOrMove /\ ~last.replace
     /\ SourceIsFile /\ DestOccupied) =>
        last.err = "FileExistsError" /\ NothingChanged

\* C3 amended: the same, for a new name that contains neither "/" nor "\"
\* (a new name with a back slash is refused with InvalidFileValueError
\* before the destination is looked at, also when an entry has that name).
C3_ExistingDestinationFails ==
    (/\ IsFileRenameOrMove /\ ~last.replace
     /\ SourceIsFile /\ DestOccupied
     /\ ~HasSlash(last.name)) =>
        last.err = "FileExistsError" /\ NothingChanged

\* C3 witness: file a was renamed to b, an existing file, without replacing
C3_Witness ==
    /\ last.op = "File.rename" /\ ~last.replace /\ last.name = Nb
    /\ SourceIsFile /\ SourceAt.at = <<Na>> /\ DestOccupied
    /\ last.err = "FileExistsError"

\* C4: renaming or moving a File A onto another existing file B (by a name
\* without "/" or "\") with replace_existing_file=True succeeds: nothing is
\* left at A's former path, B holds A's former content and the stored path
\* is B.
C4_ReplaceExistingFile ==
    (/\ IsFileRenameOrMove /\ last.replace
     /\ SourceIsFile /\ DestOccupied
     /\ last.fs0[DestAt].kind = "file" /\ DestAt # SourceAt.at
     /\ ~HasSlash(last.name)) =>
        /\ last.err = "ok"
        /\ SourceAt.at \notin DOMAIN fs
        /\ DestAt \in DOMAIN fs /\ fs[DestAt] = last.fs0[SourceAt.at]
        /\ ent[last.e].path = PathOf(DestAt)

\* C5: after a successful rename or move of a File, the stored path
\* designates the destination, targetDirectory/(newName or current name),
\* and the file's content is found there.
C5_StoredPathIsDestination ==
    (IsFileRenameOrMove /\ last.err = "ok") =>
        /\ Designates(fs, ent[last.e].path, last.fs0[SourceAt.at].kind)
        /\ stat(fs, ent[last.e].path).at = DestAt
        /\ fs[DestAt] = last.fs0[SourceAt.at]

\* C6: every operation either succeeds or fails with the stored paths and
\* the filesystem unchanged, and a rename or move changes the stored path
\* only after os.rename / os.replace was performed.
C6_AllOrNothing ==
    last.op # "start" =>
        /\ last.err # "ok" => NothingChanged
        /\ (/\ last.op \in {"File.rename", "File.move", "Directory.rename"}
            /\ ent[last.e].path # last.ent0[last.e].path) => last.renamed

\* C7: Directory.rename(newName) fails with FileExistsError or
\* IsADirectoryError whenever parent/newName is occupied by an existing
\* entry of any kind, and leaves the filesystem and the stored path
\* unchanged.
C7_DirectoryRenameOntoExistingFails ==
    (/\ last.op = "Directory.rename"
     /\ last.name # <<>> /\ ~HasSlash(last.name)
     /\ exists(last.fs0,
               join(path_parent(last.ent0[last.e].path), last.name))) =>
        /\ last.err \in {"FileExistsError", "IsADirectoryError"}
        /\ NothingChanged

\* a path that is absolute, without two consecutive "/" and without a
\* trailing "/" unless it is the root
IsCanonical(path) ==
    /\ path # <<>> /\ path[1] = SEP
    /\ \A i \in 1..(Len(path) - 1) : ~(path[i] = SEP /\ path[i + 1] = SEP)
    /\ Len(path) > 1 => Last(path) # SEP

\* C8: the stored path of every File and Directory is absolute and uses
\* single separators only, with no trailing separator except for the root.
C8_StoredPathsAreCanonical ==
    \A e \in Slots : ent[e].cls # "none" => IsCanonical(ent[e].path)

\* C9: when the path of a File is assigned (constructor, path setter,
\* rename, move) the path stored does not designate an existing directory,
\* and when the path of a Directory is assigned the path stored does not
\* designate an existing file.
C9_StoredPathIsNotOfWrongType ==
    (last.op # "start" /\ last.err = "ok") =>
        ~Designates(fs, ent[last.e].path, WrongKind(ent[last.e].cls))

\* C10: normalize_path is idempotent: normalizing a normalized path
\* changes nothing.
C10_NormalizeIdempotent ==
    Len(nout) = 2 => nout[2] = nout[1]

\* a string holds no back slash and no two consecutive "/"
HasOnlySingleForwardSlashes(path) ==
    /\ \A i \in 1..Len(path) : path[i] # BSL
    /\ \A i \in 1..(Len(path) - 1) : ~(path[i] = SEP /\ path[i + 1] = SEP)

\* C11: on POSIX the result of normalize_path holds only single forward
\* slashes as separators: every run of "/" and every run of back slashes
\* has become one "/", so no back slash is left.
C11_NormalizeCollapsesSlashes ==
    Len(nout) >= 1 => HasOnlySingleForwardSlashes(nout[1])

\* the last operation is a rename or a move, of a File or of a Directory
IsRenameOrMove == last.op \in {"File.rename", "File.move", "Directory.rename"}

\* C12: File.rename, File.move and Directory.rename with a new name that
\* contains "/" or "\" fail with InvalidFileValueError /
\* InvalidDirectoryValueError without renaming anything, and leave the
\* filesystem and the stored paths unchanged, whatever is at the destination.
C12_NameWithSlashIsRefused ==
    (IsRenameOrMove /\ HasSlash(last.name)) =>
        /\ last.err = InvalidValueError(last.ent0[last.e].cls)
        /\ ~last.renamed
        /\ NothingChanged

\* C12 witness: file a was asked to take the name "\", the name of an
\* existing file, and was refused
C12_Witness ==
    /\ last.op = "File.rename" /\ last.name = Nbsl
    /\ last.ent0[last.e].path = Slash \o Na
    /\ <<Nbsl>> \in DOMAIN last.fs0
    /\ last.err = "InvalidFileValueError" /\ NothingChanged

\* the last operation is an assignment to the path of a File or Directory
IsPathAssignment == last.op \in {"File.path", "Directory.path"}

\* the error a class raises for a path of the wrong kind
WrongKindError(cls) ==
    IF cls = "File" THEN "IsADirectoryError" ELSE "NotADirectoryError"

\* C14: assigning to File.path a path that designates an existing directory
\* fails with IsADirectoryError (Directory.path and an existing file:
\* NotADirectoryError) and leaves the stored path unchanged; any other path
\* is stored as normalize_path(abspath(new_path)); the filesystem is never
\* modified.
C14_PathSetterValidatesAndNormalizes ==
    IsPathAssignment =>
        LET cls == last.ent0[last.e].cls
        IN  /\ fs = last.fs0
            /\ Designates(last.fs0, last.path, WrongKind(cls)) =>
                  last.err = WrongKindError(cls) /\ ent = last.ent0
            /\ ~Designates(last.fs0, last.path, WrongKind(cls)) =>
                  /\ last.err = "ok"
                  /\ ent = [last.ent0 EXCEPT ![last.e].path =
                               normalize_path(abspath(last.path))]

\* C14 witness: the path of a File at /a was set to "s", a directory, and
\* the assignment was refused
C14_Witness ==
    /\ last.op = "File.path" /\ last.path = Ns
    /\ last.err = "IsADirectoryError"
    /\ ent[last.e] = [cls |-> "File", path |-> Slash \o Na]

\* the outcome of the constructor of a class on a path
Construct(cls, fsys, path) ==
    IF cls = "File" THEN File__init__(fsys, path)
    ELSE Directory__init__(fsys, path)

\* the path a rename or move assigns after renaming: the directory joined
\* with the new name, or with the current name when none is given
AssignedByRename ==
    LET self_path == last.ent0[last.e].path
    IN  join(IF last.op = "File.move" THEN last.path
             ELSE path_parent(self_path),
             IF last.name # <<>> THEN last.name ELSE path_name(self_path))

\* C15: every reassignment of a path (the path setter, and the update made
\* by rename and move once the entry is renamed) has the outcome the
\* constructor has on the same input: the same error when the constructor
\* rejects it, the same stored path when it accepts it.
C15_ReassignmentAsConstructor ==
    /\ IsPathAssignment =>
          LET c == Construct(last.ent0[last.e].cls, last.fs0, last.path)
          IN  /\ last.err = c.err
              /\ c.err = "ok" => ent[last.e].path = c.path
    /\ (IsRenameOrMove /\ last.renamed) =>
          LET c == Construct(last.ent0[last.e].cls, fs, AssignedByRename)
          IN  /\ last.err = c.err
              /\ c.err = "ok" => ent[last.e].path = c.path

\* the directory the entity of the last operation designated before it
TargetIsDirectory == Designates(last.fs0, last.ent0[last.e].path, "dir")

\* the outcome Directory.remove is to have on the directory at location at
RemoveOutcomeAsStated(at) ==
    /\ (last.empty_only /\ ~HasChildren(last.fs0, at)) =>
          last.err = "ok" /\ fs = RemoveTree(last.fs0, at)
    /\ (last.empty_only /\ HasChildren(last.fs0, at)) =>
          last.err = "OSError(ENOTEMPTY)" /\ fs = last.fs0
    /\ ~last.empty_only =>
          last.err = "ok" /\ fs = RemoveTree(last.fs0, at)

\* C16 as stated: Directory.remove(empty_only=True) removes an existing
\* empty directory and fails with a "not empty" error, removing nothing, on
\* one that holds an entry; remove(empty_only=False) removes the directory
\* and everything below it and nothing else; the stored path never changes.
C16_DirectoryRemoveAsStated ==
    last.op = "Directory.remove" =>
        /\ ent = last.ent0
        /\ TargetIsDirectory =>
              RemoveOutcomeAsStated(SourceAt.at)

\* C16 amended: the same for every directory but the root of the
\* filesystem, which cannot be removed (EBUSY, after its content was
\* removed when empty_only=False).
C16_DirectoryRemove ==
    last.op = "Directory.remove" =>
        /\ ent = last.ent0
        /\ (TargetIsDirectory /\ SourceAt.at # ROOT) =>
              RemoveOutcomeAsStated(SourceAt.at)

\* C16 witness: directory s, which holds a file, was removed with
\* empty_only=False and nothing is left of it
C16_Witness ==
    /\ last.op = "Directory.remove" /\ ~last.empty_only
    /\ SourceAt = Ok(<<Ns>>) /\ <<Ns, Na>> \in DOMAIN last.fs0
    /\ last.err = "ok"
    /\ <<Ns>> \notin DOMAIN fs /\ <<Ns, Na>> \notin DOMAIN fs
    /\ <<Na>> \in DOMAIN fs

\* the entity of the last operation designated a regular file before it
TargetIsFile == Designates(last.fs0, last.ent0[last.e].path, "file")

\* the stored path of the entity of the last operation designated nothing
TargetMissing == ~exists(last.fs0, last.ent0[last.e].path)

\* File.remove removed exactly the regular file the stored path designated
RemovedTheFile ==
    /\ last.err = "ok"
    /\ fs = RemoveTree(last.fs0, SourceAt.at)
    /\ ~exists(fs, ent[last.e].path)

\* C17 as stated: File.remove() deletes exactly the file at the stored
\* path, after which the entity does not exist and its path is unchanged;
\* when nothing exists at the stored path it fails with the not-found error
\* (FileNotFoundError) and changes nothing.
C17_FileRemoveAsStated ==
    last.op = "File.remove" =>
        /\ ent = last.ent0
        /\ TargetIsFile => RemovedTheFile
        /\ TargetMissing => last.err = "FileNotFoundError" /\ fs = last.fs0

\* C17 amended: when nothing exists at the stored path the error is
\* FileNotFoundError, or NotADirectoryError when the path leads through an
\* entry that is not a directory.
C17_FileRemove ==
    last.op = "File.remove" =>
        /\ ent = last.ent0
        /\ TargetIsFile => RemovedTheFile
        /\ TargetMissing =>
              /\ last.err \in {"FileNotFoundError", "NotADirectoryError"}
              /\ fs = last.fs0

\* C17 witness: the file at /s/a was removed, and the directory s and the
\* file /a are still there
C17_Witness ==
    /\ last.op = "File.remove" /\ last.err = "ok"
    /\ SourceAt = Ok(<<Ns, Na>>)
    /\ <<Ns, Na>> \notin DOMAIN fs
    /\ <<Ns>> \in DOMAIN fs /\ <<Na>> \in DOMAIN fs

\* a name an entry of a directory can be given by rename
IsPlainName(name) ==
    name # <<>> /\ name # Dot /\ name # DotDot /\ ~HasSlash(name)

\* the File of the study designates an existing file A, and the name of the
\* study is free in the directory of A
TripApplies ==
    /\ Len(ret) >= 1 /\ ret[1] = "ok"
    /\ Designates(InitFS, TripPath, "file")
    /\ IsPlainName(arg.name)
    /\ Append(Front(stat(InitFS, TripPath).at), arg.name) \notin DOMAIN InitFS

\* C13: for a file at A and a name B free in the directory of A, rename to
\* B and rename back to the original name both succeed and restore the
\* initial state: the filesystem is as it was (the file with its content at
\* A, nothing at B) and the stored path is A.
C13_RenameRoundTrip ==
    TripApplies =>
        /\ Len(ret) >= 2 => ret[2] = "ok"
        /\ Len(ret) >= 3 =>
              ret[3] = "ok" /\ fs = InitFS /\ ent[1].path = TripPath

\* the parent taken n times
RECURSIVE ParentTimes(_, _)
ParentTimes(path, n) ==
    IF n = 0 THEN path ELSE ParentTimes(parent(path), n - 1)

\* C18: get_parent(levels=0) returns what get_parent(levels=1) returns,
\* the parent property; get_parent with negative levels fails with
\* InvalidFileValueError / InvalidDirectoryValueError; for n >= 1 the result
\* is the parent taken n times from the stored path, which is the root once
\* n reaches the number of components of the path.
C18_GetParent ==
    Len(ret) = 2 =>
        LET p == ent[1].path
            r == ret[2]
        IN  /\ ent[1].cls = arg.cls
            /\ arg.levels < 0 =>
                  r.err = InvalidValueError(arg.cls)
            /\ arg.levels \in {0, 1} =>
                  r = [err |-> "ok", value |-> parent(p)]
            /\ arg.levels >= 1 =>
                  /\ r = [err |-> "ok", value |-> ParentTimes(p, arg.levels)]
                  /\ arg.levels >= Len(path_parts(p)) =>
                        r.value = path_root(p)

\* C18 witness: get_parent(0) of the File at /s/a returned /s
C18_Witness ==
    /\ Len(ret) = 2 /\ arg.cls = "File" /\ arg.levels = 0
    /\ ent[1].path = Slash \o Ns \o Slash \o Na
    /\ ret[2] = [err |-> "ok", value |-> Slash \o Ns]

\* a name without a dot
HasNoDot(name) == \A i \in 1..Len(name) : name[i] # "."

\* s ends with t
EndsWith(s, t) ==
    Len(t) <= Len(s) /\ SubSeq(s, Len(s) - Len(t) + 1, Len(s)) = t

\* the relations of stem, extension and extensions in r that hold of every
\* name: stem + extension is the name, every extension is a dot and a text
\* without a dot, the extensions in order end the name, the example of
\* backup.tar.gz, and a name without a dot has no extension
NamePartsAgree(r) ==
    /\ r.stem \o r.extension = r.name
    /\ \A k \in 1..Len(r.extensions) :
          Head(r.extensions[k]) = "." /\ HasNoDot(Tail(r.extensions[k]))
    /\ EndsWith(r.name, Concat(r.extensions))
    /\ r.name = BackupTarGz =>
          /\ r.stem = <<"b", "a", "c", "k", "u", "p", ".", "t", "a", "r">>
          /\ r.extension = <<".", "g", "z">>
          /\ r.extensions = << <<".", "t", "a", "r">>, <<".", "g", "z">> >>
    /\ HasNoDot(r.name) => r.extension = <<>> /\ r.extensions = <<>>

\* extension is the last of extensions, or empty when there is none
ExtensionIsLastOfExtensions(r) ==
    r.extension = IF r.extensions = <<>> THEN <<>> ELSE Last(r.extensions)

\* a name made of two or more dots and then a text without a dot
IsDotsThenText(name) ==
    /\ Len(name) >= 3 /\ name[1] = "." /\ name[2] = "."
    /\ lstrip_dots(name) # <<>> /\ HasNoDot(lstrip_dots(name))

\* C19 as stated: stem + extension is the name, extension is the last
\* element of extensions (empty when extensions is empty), extensions
\* lists the dot-delimited suffixes in order; backup.tar.gz gives
\* backup.tar, .gz and [.tar, .gz]; a name without a dot has no extension.
C19_NamePartsAsStated ==
    Len(ret) = 2 =>
        NamePartsAgree(ret[2]) /\ ExtensionIsLastOfExtensions(ret[2])

\* C19 amended: extension is the last element of extensions for every name
\* but those made of two or more dots and a text without a dot (such as
\* ..a), where extension is that dot and text and extensions is empty.
C19_NameParts ==
    Len(ret) = 2 =>
        /\ NamePartsAgree(ret[2])
        /\ ~IsDotsThenText(ret[2].name) =>
              ExtensionIsLastOfExtensions(ret[2])
        /\ IsDotsThenText(ret[2].name) =>
              /\ ret[2].extensions = <<>>
              /\ ret[2].extension = <<".">> \o lstrip_dots(ret[2].name)

\* C19 witness: the parts of the File at /s/backup.tar.gz were taken
C19_Witness ==
    /\ Len(ret) = 2 /\ ent[1].path = Slash \o Ns \o Slash \o BackupTarGz
    /\ ret[2].stem = <<"b", "a", "c", "k", "u", "p", ".", "t", "a", "r">>
    /\ ret[2].extension = <<".", "g", "z">>

\* the lowercase ASCII letters and the digits
LowercaseLettersAndDigits ==
    { "a", "b", "c", "d", "e", "f", "g", "h", "i", "j", "k", "l", "m",
      "n", "o", "p", "q", "r", "s", "t", "u", "v", "w", "x", "y", "z",
      "0", "1", "2", "3", "4", "5", "6", "7", "8", "9" }

\* C20: get_random_file_name(directory) returns a name of exactly 32
\* characters, all lowercase ASCII letters or digits, such that
\* directory/name does not exist, and it never changes the filesystem.
C20_RandomFileName ==
    /\ fs = last.fs0
    /\ ret.pc = "return" =>
          /\ Len(ret.random_file_name) = 32
          /\ \A i \in 1..Len(ret.random_file_name) :
                ret.random_file_name[i] \in LowercaseLettersAndDigits
          /\ ~exists(fs, join(arg.directory, ret.random_file_name))

\* C20 witness: a name for directory s was returned at the second try, the
\* first name generated being taken
C20_Witness ==
    /\ ret.pc = "return" /\ ret.tries = 1
    /\ arg.directory = Ns
    /\ <<Ns, ret.random_file_name>> \notin DOMAIN fs

\* the last operation is change_owner or change_group
IsOwnershipChange == last.op \in {"change_owner", "change_group"}

\* the filesystem before the last operation, with the owner (or the group)
\* of the entry the stored path designates set to the id asked for; -1
\* leaves it as it is
WithNewId(s, field, id) ==
    [last.fs0 EXCEPT ![s.at][field] = IF id = 0 - 1 THEN @ ELSE id]

\* the argument names a user or a group by its name or by an id
IsPrincipal(database, a) ==
    \/ a.type = "int" /\ a.id >= 0
    \/ a.type = "str" /\ a.name \in DOMAIN database

\* C21: on POSIX, change_owner(user) changes only the owner of the entry at
\* the stored path and leaves its group unchanged, and change_group(group)
\* changes only the group and leaves the owner unchanged, whether the
\* argument is a name or a numeric id (root may give any); neither changes
\* the stored path nor any other filesystem entry, and a call that fails
\* changes nothing.
C21_ChangeOwnerChangesOnlyOwner ==
    IsOwnershipChange =>
        LET s == stat(last.fs0, ent[1].path)
            field == IF last.op = "change_owner" THEN "uid" ELSE "gid"
            database == IF last.op = "change_owner" THEN Users ELSE Groups
        IN  /\ ent = last.ent0
            /\ last.err # "ok" => fs = last.fs0
            /\ last.err = "ok" =>
                  /\ s.err = "ok"
                  /\ fs = WithNewId(s, field, chown_id(database, arg.a))
            /\ (/\ arg.cred.euid = 0 /\ s.err = "ok"
                /\ IsPrincipal(database, arg.a)) =>
                  /\ last.err = "ok"
                  /\ fs[s.at][field] = chown_id(database, arg.a)

\* C21 witness: root changed the owner of the file at /a, which belonged to
\* daemon, to the user named root, and the group of the file is still daemon
C21_Witness ==
    /\ last.op = "change_owner" /\ last.err = "ok"
    /\ arg.a = NameArg("root") /\ ent[1] = [cls |-> "File", path |-> Slash \o Na]
    /\ last.fs0[<<Na>>].uid = 1
    /\ fs[<<Na>>].uid = 0 /\ fs[<<Na>>].gid = 1

\* C22 as stated: on a non-POSIX platform the owner and group properties
\* and the change_owner and change_group operations always fail with
\* NotImplementedError, and the filesystem and the stored path are unchanged:
\* a program that imports the package, constructs an entity and calls one of
\* them ends with that error.
C22_NotSupportedOffPosix ==
    (arg.platform = "windows" /\ ret.pc = "done") =>
        /\ ret.err = "NotImplementedError"
        /\ fs = last.fs0

\* the kind of entry a class stands for
OwnKind(cls) == IF cls = "File" THEN "file" ELSE "dir"

\* C23: exists, is_file and is_dir are never cached: whenever they are
\* read, also after other programs changed the filesystem since the entity
\* was created, exists is true exactly when an entry exists at the stored
\* path, File.is_file exactly when that entry is a regular file and
\* Directory.is_dir exactly when it is a directory; a File whose path was
\* replaced by a directory reports is_file false without raising.
C23_DerivedPropertiesAreLive ==
    (ret # <<>> /\ ret.asked) =>
        LET s == stat(fs, ent[1].path)
        IN  /\ ret.exists = (s.err = "ok")
            /\ ret.is_kind = (s.err = "ok" /\ fs[s.at].kind = OwnKind(arg.cls))
            /\ ret.is_kind => ret.exists

\* C23 witness: the file at /a, on which a File was created, was replaced
\* by a directory, and the File reports that it exists and is no file
C23_Witness ==
    /\ ret # <<>> /\ ret.asked /\ ret.changes >= 1
    /\ ent[1] = [cls |-> "File", path |-> Slash \o Na]
    /\ last.fs0[<<Na>>].kind = "file" /\ fs[<<Na>>].kind = "dir"
    /\ ret.exists /\ ~ret.is_kind

\* the other program created the destination of the rename of the study
\* after it was found free: a File renamed or moved with
\* replace_existing_file=False, or a Directory renamed
RacedForDestination ==
    /\ ret # <<>> /\ ret.pc = "done" /\ ret.created # <<>>
    /\ ret.dest = "none"
    /\ arg.cls = "File" => ~arg.replace
    /\ Designates(last.fs0, last.ent0[1].path, OwnKind(arg.cls))
    /\ LookupParent(last.fs0, ret.new_path)
         = [err |-> "ok", type |-> "norm", at |-> ret.created,
            slash |-> FALSE]

\* C24: when another program creates the destination between the existence
\* check and the rename call of File.rename / File.move with
\* replace_existing_file=False, or of Directory.rename, the call fails with
\* an error of the platform and the entry the other program created is not
\* overwritten.
C24_RaceSurfacesAsError ==
    RacedForDestination =>
        /\ ret.err # "ok"
        /\ ret.created \in DOMAIN fs
        /\ fs[ret.created].data = "X"

\* the File of the study is replacing an existing regular file, or has done
\* so: its system calls are under way or over, and no other program has
\* changed the filesystem meanwhile
ReplacingAFile ==
    /\ ret # <<>> /\ ret.pc \in {"calling", "done"}
    /\ arg.cls = "File" /\ arg.replace /\ ret.dest = "file"
    /\ ret.created = <<>>

\* C25: when File.rename / File.move replaces an existing destination
\* (replace_existing_file=True), the replacement is one atomic step: in no
\* state the operation goes through is the destination without a file; it
\* holds its old content or the content of the renamed file, never nothing.
C25_ReplaceIsAtomic ==
    ReplacingAFile =>
        LET d == stat(last.fs0, ret.new_path).at
            s == stat(last.fs0, last.ent0[1].path)
        IN  /\ d \in DOMAIN fs
            /\ \/ fs[d] = last.fs0[d]
               \/ s.err = "ok" /\ fs[d] = last.fs0[s.at]
            /\ (ret.pc = "done" /\ ret.err = "ok") =>
                  s.err = "ok" /\ fs[d] = last.fs0[s.at]

\* C25 witness: the file a was renamed to b with replace_existing_file=True
\* and b, which held B, now holds the content of a
C25_Witness ==
    /\ ReplacingAFile /\ ret.pc = "done" /\ ret.err = "ok"
    /\ last.op = "File.rename" /\ arg.name = Nb
    /\ last.fs0[<<Nb>>].data = "B"
    /\ fs[<<Nb>>].data = "A" /\ <<Na>> \notin DOMAIN fs

\* the path Directory.rename is to rename to: parent/newName
RenamedPath == join(parent(last.ent0[last.e].path), last.name)

\* C26: Directory.rename(newName) with a name free of "/" and "\", an
\* existing directory at the stored path and nothing at parent/newName
\* succeeds: afterwards the directory with all of its contents is at
\* parent/newName, nothing exists at the former path, the parent of the
\* stored path is unchanged and the stored path is parent/newName.
C26_DirectoryRenameSucceeds ==
    (/\ last.op = "Directory.rename"
     /\ last.name # <<>> /\ ~HasSlash(last.name)
     /\ TargetIsDirectory
     /\ ~exists(last.fs0, RenamedPath)) =>
        LET d == Append(stat(last.fs0, parent(last.ent0[last.e].path)).at,
                        last.name)
        IN  /\ last.err = "ok"
            /\ fs = MoveTree(last.fs0, SourceAt.at, d)
            /\ SourceAt.at \notin DOMAIN fs
            /\ parent(ent[last.e].path) = parent(last.ent0[last.e].path)
            /\ ent[last.e].path = RenamedPath

\* FirstName with the first digit at position i
OneDigitName(i) == [FirstName EXCEPT ![i] = NUMBERS[1]]

\* a name is taken in a directory of the filesystem of the study
IsTaken(directory, name) == exists(RandomFS, join(directory, name))

\* for a directory and the digits of a run: a name the run can draw is free
\* in the directory, be it FirstName or, with a digit, a name with one digit
FreeNameIn ==
    [directory \in { Ns, Ne }, digits \in {0, 1} |->
        \/ ~IsTaken(directory, FirstName)
        \/ /\ digits >= 1
           /\ \E i \in 1..CHARACTER_LENGTH :
                 ~IsTaken(directory, OneDigitName(i))]

SomeNameIsFree == FreeNameIn[arg.directory, arg.digits]

\* no name the run can draw is free in the directory
NoNameIsFree == ~SomeNameIsFree

\* a complete name was drawn and it is taken
DrawnNameCollides ==
    /\ ret.pc = "loop" /\ Len(ret.random_file_name) = CHARACTER_LENGTH
    /\ IsTaken(arg.directory, ret.random_file_name)

\* C27: get_random_file_name(directory) returns at some time, the draws
\* being fair, whenever a name of the keyspace is free in the directory; it
\* tries again without returning whenever the name drawn is taken; with no
\* free name in the keyspace it never returns.
C27_RandomNameTerminates ==
    /\ [](SomeNameIsFree => <>(ret.pc = "return"))
    /\ [][DrawnNameCollides => ret'.pc = "loop"]_vars
    /\ [](NoNameIsFree => ret.pc = "loop")

\* C27 witness: a name for directory s was returned after the name drawn
\* was taken twice
C27_Witness ==
    /\ ret.pc = "return" /\ ret.tries = 2 /\ arg.directory = Ns
    /\ arg.digits = 1
    /\ ~IsTaken(arg.directory, ret.random_file_name)


-----------------------------------------------------------------------------
\* the names of a path: its segments between separators, in order
SegmentNames(path) == NonEmptyComps(path)

\* C28: on POSIX normalize_path alters only separators and "." / ".."
\* segments: the names of its result are, in order and character for
\* character, the names of os.path.normpath of the same path, so that no
\* character of a name is replaced by a separator and the result designates
\* the entry the given path designates.
C28_NormalizeKeepsNames ==
    Len(nout) >= 1 => SegmentNames(nout[1]) = SegmentNames(normpath(np))


-----------------------------------------------------------------------------
\* the destination path the last rename or move of a File computed
LastDestination ==
    rename_destination(last.ent0[last.e].path,
                       IF last.op = "File.move" THEN last.path
                       ELSE path_parent(last.ent0[last.e].path),
                       last.name)

\* C29: File.rename and File.move never remove or replace a directory: when
\* the destination is an existing directory the operation fails, with
\* FileExistsError when replace_existing_file is False and with the
\* platform's error when it is True, and the filesystem and the stored
\* paths are as they were.
C29_DirectoryIsNeverReplaced ==
    (IsFileRenameOrMove /\ isdir(last.fs0, LastDestination)) =>
        /\ last.err # "ok"
        /\ ~last.replace => last.err = "FileExistsError"
        /\ NothingChanged


-----------------------------------------------------------------------------
\* the last operation is a rename, a move or a remove of a File
IsFileOperation == last.op \in {"File.rename", "File.move", "File.remove"}

\* the last operation took the file of its entity away from the stored
\* path the entity had: it removed it, or renamed or moved it elsewhere
TookFileAway ==
    /\ IsFileOperation /\ last.err = "ok"
    /\ isfile(last.fs0, last.ent0[last.e].path)
    /\ last.op # "File.remove" => ent[last.e].path # last.ent0[last.e].path

\* another File entity held the stored path of the entity of the last
\* operation
SharesPath(x) ==
    /\ x # last.e /\ last.ent0[x].cls = "File"
    /\ last.ent0[x].path = last.ent0[last.e].path

\* the entity of the last operation was a File whose stored path
\* designated nothing
WasLeftBehind ==
    /\ IsFileOperation
    /\ ~exists_property(last.fs0, last.ent0[last.e].path)

=============================================================================
